---- MODULE Spec2Model ----
(***************************************************************************)
(* State-machine model of the BharathBrains backend services:              *)
(*   - CrossRetailerEngine.searchAllRetailers: one call, its four search   *)
(*     promises, their timeout races and the result object it returns;     *)
(*   - CrossRetailerEngine.validateDelivery: the delivery verdicts for the *)
(*     query's pincode;                                                    *)
(*   - CrossRetailerEngine.searchRetailer: the products of one retailer;   *)
(*   - FeedbackService: the in-memory feedback store and its readers;      *)
(*   - PincodeService: validatePincode and getDeliveryInfo, their cache,   *)
(*     the external lookups in flight and the eviction timers;             *)
(*   - IntentParserService: parseQuery with its fallback parser, and       *)
(*     extractEntities;                                                    *)
(* and of the search store of the front end (searchSlice).                 *)
(***************************************************************************)
EXTENDS Integers, Sequences, FiniteSets, TLC

VARIABLES
    pc,             \* position of the searchAllRetailers call
    query,          \* the ProductQuery of the call (its pincode)
    delivery,       \* validateDelivery(query.pincode, r) as answered for this query
    results,        \* the RetailerSearchResults object of the call
    adapter,        \* per retailer: the searchRetailer call made by the call
    timer,          \* per index: the setTimeout of the race
    race,           \* per index: the Promise.race of search promise and timer
    found,          \* what the last searchRetailer call of the route returned
    parsed,         \* what the last IntentParserService call settled to
    slice,          \* the state of searchSlice in the front end
    feedbackStore,  \* FeedbackService.feedbackStore
    now,            \* Date.now()
    reply,          \* outcome of the last FeedbackService call
    cache,          \* PincodeService.cache: cache key -> cached result
    calls,          \* per call slot: a PincodeService call awaiting axios.get
    evictions,      \* the pending setTimeout callbacks that delete a cache key
    elapsed,        \* the time of the event loop, in ms since the service started
    answer          \* outcome of the last PincodeService call that completed

searchVars == <<pc, query, delivery, results, adapter, timer, race>>
feedbackVars == <<feedbackStore, now, reply>>
pincodeVars == <<cache, calls, evictions, elapsed, answer>>
vars ==
    <<pc, query, delivery, results, adapter, timer, race, found, parsed,
      slice, feedbackStore, now, reply, cache, calls, evictions, elapsed,
      answer>>

\* What a step of searchAllRetailers, of the retailer route, of
\* IntentParserService, of the front-end store, of FeedbackService and of
\* PincodeService leaves alone.
notSearchVars == <<found, parsed, slice, feedbackVars, pincodeVars>>
notRouteVars == <<searchVars, parsed, slice, feedbackVars, pincodeVars>>
notIntentVars == <<searchVars, found, slice, feedbackVars, pincodeVars>>
notSliceVars == <<searchVars, found, parsed, feedbackVars, pincodeVars>>
notFeedbackVars == <<searchVars, found, parsed, slice, pincodeVars>>
notPincodeVars == <<searchVars, found, parsed, slice, feedbackVars>>

(***************************************************************************)
(* CrossRetailerEngine                                                     *)
(***************************************************************************)
retailers == <<"amazon", "flipkart", "myntra", "meesho">>

Retailers == {retailers[i] : i \in 1..Len(retailers)}

Indexes == 1..Len(retailers)

\* A property that a SearchResult does not carry.
Undefined == "<undefined>"

\* Pincodes a query carries: one inside every delivery zone, one outside myntra's.
Pincodes == {"110001", "700001"}

deliveryZones ==
    [amazon   |-> {"110001", "400001", "560001", "600001", "700001"},
     flipkart |-> {"110001", "400001", "560001", "600001", "700001"},
     myntra   |-> {"110001", "400001", "560001", "600001"},
     meesho   |-> {"110001", "400001", "560001", "600001", "700001"}]

\* The booleans validateDelivery can return: true for a pincode of the zone,
\* otherwise the outcome of Math.random() > 0.2.
validateDelivery(pincode, retailer) ==
    IF pincode \in deliveryZones[retailer] THEN {TRUE} ELSE {TRUE, FALSE}

baseProducts ==
    <<[brand |-> "BrandA", price |-> 2500, reviewCount |-> 156],
      [brand |-> "BrandB", price |-> 1800, reviewCount |-> 89],
      [brand |-> "BrandC", price |-> 3200, reviewCount |-> 234]>>

\* Math.floor(Math.random() * n): Math.random() is in [0, 1), so any integer
\* of 0..n-1.
RandomBelow(n) == 0..(n - 1)

\* The n of Math.floor(Math.random() * 30) in matchScore.
MatchScoreSpan == 30

\* The draws of one getMockProducts call: one per base product.
ScoreDraws == [1..Len(baseProducts) -> RandomBelow(MatchScoreSpan)]

\* The draws of the adapters of a searchAllRetailers call: the first product
\* draws the lowest score, the second the highest.
SearchDraws == <<0, MatchScoreSpan - 1, MatchScoreSpan \div 2>>

\* Mutant: the score starts at 80.
MatchScoreOfFrom80(draw) == draw + 80

\* matchScore: Math.floor(Math.random() * 30) + 70
MatchScoreOf(draw) == draw + 70

\* generateHighlights(index): the types of the highlights pushed.
generateHighlights(index) ==
    (IF index = 0 THEN <<"top_pick">> ELSE <<>>)
    \o (IF index = 1 THEN <<"best_value">> ELSE <<>>)
    \o (IF index = 2 THEN <<"fastest_delivery">> ELSE <<>>)

\* baseProducts.map((product, index) => ...): the id carries the retailer and
\* the index; draws[n] is the Math.random draw of the n-th matchScore.
getMockProducts(retailer, draws) ==
    [n \in 1..Len(baseProducts) |->
        [retailer |-> retailer,
         brand |-> baseProducts[n].brand,
         price |-> baseProducts[n].price,
         reviewCount |-> baseProducts[n].reviewCount,
         index |-> n - 1,
         matchScore |-> MatchScoreOf(draws[n]),
         highlights |-> generateHighlights(n - 1)]]

\* What searchRetailer resolves with inside searchAllRetailers: the batch of
\* the retailer, or no product at all when the retailer has none for the query.
Batches(retailer) == {getMockProducts(retailer, SearchDraws), <<>>}

\* Values an adapter throws: an Error with a message, or a value that is no Error.
Thrown ==
    {[isError |-> TRUE, message |-> "Scrape failed"],
     [isError |-> FALSE, message |-> "boom"]}

\* An adapter call: its state, what it resolved with or threw, and whether it
\* settled only after the timer of its race had fired.
NotInvoked ==
    [state |-> "notInvoked", products |-> <<>>, thrown |-> Undefined,
     afterDeadline |-> FALSE]

PendingAdapter ==
    [state |-> "pending", products |-> <<>>, thrown |-> Undefined,
     afterDeadline |-> FALSE]

LoadingResult == [status |-> "loading", products |-> <<>>, error |-> Undefined]

PendingRace == [status |-> "pending", value |-> Undefined, reason |-> Undefined]

\* Mutant: the initial results object lacks the last retailer.
InitialResultsWithoutMeesho ==
    [r \in {"amazon", "flipkart", "myntra"} |-> LoadingResult]

\* results = { amazon: loading, flipkart: loading, myntra: loading, meesho: loading }
InitialResults ==
    [r \in {"amazon", "flipkart", "myntra", "meesho"} |-> LoadingResult]

\* Mutant: the catch branch drops the message of the thrown Error.
ErrorMessageGeneric(thrown) == "Search failed"

\* error instanceof Error ? error.message : 'Search failed'
ErrorMessageOf(thrown) ==
    IF thrown.isError THEN thrown.message ELSE "Search failed"

\* Mutant: an adapter that resolves with no product is reported as an error.
SearchPromiseOutcomeEmptyIsError(retailer, settled) ==
    IF settled.state = "fulfilled" /\ settled.products # <<>>
    THEN [status |-> "fulfilled",
          value |-> [retailer |-> retailer,
                     result |-> [status |-> "success",
                                 products |-> settled.products,
                                 error |-> Undefined]],
          reason |-> Undefined]
    ELSE [status |-> "fulfilled",
          value |-> [retailer |-> retailer,
                     result |-> [status |-> "error",
                                 products |-> <<>>,
                                 error |-> "Search failed"]],
          reason |-> Undefined]

\* What a search promise settles to once its adapter has settled: the try
\* branch on fulfilment, the catch branch on a throw. It never rejects.
SearchPromiseOutcome(retailer, settled) ==
    IF settled.state = "fulfilled"
    THEN [status |-> "fulfilled",
          value |-> [retailer |-> retailer,
                     result |-> [status |-> "success",
                                 products |-> settled.products,
                                 error |-> Undefined]],
          reason |-> Undefined]
    ELSE [status |-> "fulfilled",
          value |-> [retailer |-> retailer,
                     result |-> [status |-> "error",
                                 products |-> <<>>,
                                 error |-> ErrorMessageOf(settled.thrown)]],
          reason |-> Undefined]

\* The timer's reject(new Error('Search timeout')).
TimeoutRejection ==
    [status |-> "rejected", value |-> Undefined, reason |-> "Search timeout"]

\* Mutant: the last settlement wins.
RaceLastWins(current, settlement) == settlement

\* Promise.race: the first settlement wins, later ones are ignored.
RaceAfter(current, settlement) ==
    IF current.status = "pending" THEN settlement ELSE current

\* Mutant: the forEach callback is off by one position.
RetailerAtShifted(index) == retailers[(index % Len(retailers)) + 1]

\* The retailer the forEach callback writes for searchResults[index].
RetailerAt(index) == retailers[index]

\* Mutant: the forEach callback handles fulfilled races only.
SettledEntryFulfilledOnly(settled) ==
    IF settled.status = "fulfilled" THEN settled.value.result ELSE LoadingResult

\* The SearchResult the forEach callback stores for one settled race.
SettledEntry(settled) ==
    IF settled.status = "fulfilled"
    THEN settled.value.result
    ELSE [status |-> "error", products |-> <<>>, error |-> "Search timeout or failed"]

\* results[key] = value on a JavaScript object.
Assign(obj, key, value) ==
    [k \in DOMAIN obj \cup {key} |-> IF k = key THEN value ELSE obj[k]]

\* searchResults.forEach((result, index) => ...) over the indexes 1..n.
RECURSIVE ProcessUpTo(_, _, _)
ProcessUpTo(obj, settled, n) ==
    IF n = 0 THEN obj
    ELSE Assign(ProcessUpTo(obj, settled, n - 1), RetailerAt(n), SettledEntry(settled[n]))

\* Mutant: the call awaits the adapters instead of the races.
AllAdaptersSettled == \A r \in Retailers : adapter[r].state \in {"fulfilled", "rejected"}

\* Promise.allSettled over the races has resolved.
AllSettled == \A i \in Indexes : race[i].status # "pending"

\* The verdicts the delivery gate can give for one pincode.
DeliveryVerdicts(pincode) ==
    {d \in [Retailers -> BOOLEAN] :
        \A r \in Retailers : d[r] \in validateDelivery(pincode, r)}

NoQuery == [pincode |-> Undefined]

\* No results object exists outside a call.
NoResults == <<>>

NoDelivery == [r \in Retailers |-> TRUE]

\* A request arrives: the delivery gate is asked about every retailer for the
\* pincode of the query. The gate can be asked again before the search starts.
ValidateDelivery(pincode) ==
    /\ pc \in {"idle", "validated"}
    /\ query' = [pincode |-> pincode]
    /\ delivery' \in DeliveryVerdicts(pincode)
    /\ pc' = "validated"
    /\ UNCHANGED <<results, adapter, timer, race>>
    /\ UNCHANGED notSearchVars

\* searchAllRetailers up to the initialisation of the results object.
SearchAllRetailers ==
    /\ pc = "validated"
    /\ results' = InitialResults
    /\ pc' = "initialized"
    /\ UNCHANGED <<query, delivery, adapter, timer, race>>
    /\ UNCHANGED notSearchVars

\* Mutant: only the first retailer is searched before the call awaits.
LaunchSearchesFirstOnly ==
    /\ pc = "initialized"
    /\ adapter' = [adapter EXCEPT ![retailers[1]] = PendingAdapter]
    /\ timer' = [i \in Indexes |-> "armed"]
    /\ race' = [i \in Indexes |-> PendingRace]
    /\ pc' = "awaiting"
    /\ UNCHANGED <<query, delivery, results>>
    /\ UNCHANGED notSearchVars

\* retailers.map(...) invokes searchRetailer for every retailer, then every
\* race arms its timer, and the call awaits Promise.allSettled.
LaunchSearches ==
    /\ pc = "initialized"
    /\ adapter' = [r \in Retailers |-> PendingAdapter]
    /\ timer' = [i \in Indexes |-> "armed"]
    /\ race' = [i \in Indexes |-> PendingRace]
    /\ pc' = "awaiting"
    /\ UNCHANGED <<query, delivery, results>>
    /\ UNCHANGED notSearchVars

\* Mutant: a search promise that settles after the call has returned writes
\* its entry of the results itself.
AdapterSettlesWritingEntry(i, settled) ==
    /\ pc \in {"awaiting", "returned"}
    /\ adapter[retailers[i]].state = "pending"
    /\ adapter' = [adapter EXCEPT ![retailers[i]] = settled]
    /\ race' = [race EXCEPT
                  ![i] = RaceAfter(@, SearchPromiseOutcome(retailers[i], settled))]
    /\ results' =
          IF pc = "returned"
          THEN Assign(results, retailers[i],
                      SearchPromiseOutcome(retailers[i], settled).value.result)
          ELSE results
    /\ UNCHANGED <<pc, query, delivery, timer>>
    /\ UNCHANGED notSearchVars

\* The adapter of retailers[i] settles and its search promise with it; the
\* race takes the outcome unless the timer won.
AdapterSettles(i, settled) ==
    /\ pc \in {"awaiting", "returned"}
    /\ adapter[retailers[i]].state = "pending"
    /\ adapter' = [adapter EXCEPT ![retailers[i]] = settled]
    /\ race' = [race EXCEPT
                  ![i] = RaceAfter(@, SearchPromiseOutcome(retailers[i], settled))]
    /\ UNCHANGED <<pc, query, delivery, results, timer>>
    /\ UNCHANGED notSearchVars

AdapterReturns(i, products) ==
    AdapterSettles(i, [state |-> "fulfilled",
                       products |-> products,
                       thrown |-> Undefined,
                       afterDeadline |-> timer[i] = "fired"])

AdapterThrows(i, thrown) ==
    AdapterSettles(i, [state |-> "rejected",
                       products |-> <<>>,
                       thrown |-> thrown,
                       afterDeadline |-> timer[i] = "fired"])

\* The timer of race i fires after searchTimeout; it is never cleared.
TimerFires(i) ==
    /\ pc \in {"awaiting", "returned"}
    /\ timer[i] = "armed"
    /\ timer' = [timer EXCEPT ![i] = "fired"]
    /\ race' = [race EXCEPT ![i] = RaceAfter(@, TimeoutRejection)]
    /\ UNCHANGED <<pc, query, delivery, results, adapter>>
    /\ UNCHANGED notSearchVars

\* Promise.allSettled has resolved: the forEach fills the results object and
\* the call returns it.
ProcessResults ==
    /\ pc = "awaiting"
    /\ AllSettled
    /\ results' = ProcessUpTo(results, race, Len(retailers))
    /\ pc' = "returned"
    /\ UNCHANGED <<query, delivery, adapter, timer, race>>
    /\ UNCHANGED notSearchVars

\* The route sends the returned results; the objects of the call are dropped.
Respond ==
    /\ pc = "returned"
    /\ pc' = "idle"
    /\ query' = NoQuery
    /\ delivery' = NoDelivery
    /\ results' = NoResults
    /\ adapter' = [r \in Retailers |-> NotInvoked]
    /\ timer' = [i \in Indexes |-> "unset"]
    /\ race' = [i \in Indexes |-> PendingRace]
    /\ UNCHANGED notSearchVars

\* No searchRetailer call of the route is waiting for its response.
NotSearched == [retailer |-> Undefined, products |-> <<>>]

\* The route of one retailer: searchRetailer(retailer, query) returns the mock
\* products of the retailer.
SearchRetailer(retailer, draws) ==
    /\ found = NotSearched
    /\ found' = [retailer |-> retailer,
                 products |-> getMockProducts(retailer, draws)]
    /\ UNCHANGED notRouteVars

\* The route sends the products found.
SendProducts ==
    /\ found # NotSearched
    /\ found' = NotSearched
    /\ UNCHANGED notRouteVars

(***************************************************************************)
(* FeedbackService                                                         *)
(***************************************************************************)
\* Bounds of the model: the feedback entries kept and the days the clock runs.
MaxStore == 3

MaxDays == 1

DayMs == 24 * 60 * 60 * 1000

\* Date.now() when the service starts, counted from an origin twenty days back.
StartMs == 20 * DayMs

\* JavaScript values of the request body: strings, numbers and undefined.
JsStr(str) == [t |-> "string", s |-> str, n |-> 0]

JsNum(num) == [t |-> "number", s |-> "", n |-> num]

JsUndefined == [t |-> "undefined", s |-> "", n |-> 0]

\* Whether a value is truthy: a non-empty string or a number other than 0.
Truthy(x) ==
    CASE x.t = "string" -> x.s # ""
      [] x.t = "number" -> x.n # 0
      [] OTHER -> FALSE

\* Request bodies the service accepts: feedback on product p1 for query q1
\* and on product p2 for query q2, with no timestamp, timestamp 0 or 1.
AcceptableInputs ==
    [productId : {JsStr("p1")}, queryId : {JsStr("q1")},
     type : {JsStr("relevant"), JsStr("not_relevant")},
     timestamp : {JsUndefined, JsNum(0), JsNum(1)}]
    \cup
    [productId : {JsStr("p2")}, queryId : {JsStr("q2")},
     type : {JsStr("relevant"), JsStr("not_relevant")},
     timestamp : {JsUndefined, JsNum(0), JsNum(1)}]

\* Request bodies with a missing or non-string id, an unrecognized type, or a
\* negative or non-numeric timestamp, in any combination.
FaultyInputs ==
    [productId : {JsStr("p1"), JsUndefined, JsNum(7)},
     queryId : {JsStr("q1"), JsUndefined, JsNum(7)},
     type : {JsStr("relevant"), JsStr("maybe")},
     timestamp : {JsUndefined, JsNum(-1), JsStr("5")}]

FeedbackInputs == AcceptableInputs \cup FaultyInputs

\* Timestamps around the two window edges of calculateTrends at StartMs (the
\* edge itself and one millisecond after it), one after StartMs and none.
TrendTimestamps ==
    {JsUndefined,
     JsNum(StartMs - 14 * DayMs), JsNum(StartMs - 14 * DayMs + 1),
     JsNum(StartMs - 7 * DayMs), JsNum(StartMs - 7 * DayMs + 1),
     JsNum(StartMs + 2 * DayMs)}

\* Request bodies for one product and query with the timestamps above.
TrendInputs ==
    [productId : {JsStr("p1")}, queryId : {JsStr("q1")},
     type : {JsStr("relevant"), JsStr("not_relevant")},
     timestamp : TrendTimestamps]

\* Request bodies pairing each of two products with each of two queries.
HistoryInputs ==
    [productId : {JsStr("p1"), JsStr("p2")},
     queryId : {JsStr("q1"), JsStr("q2")},
     type : {JsStr("relevant"), JsStr("not_relevant")},
     timestamp : {JsUndefined}]

\* Request bodies whose ids are ordinary ones or names every object has
\* ('constructor', '__proto__'), and one with an unrecognized type.
AnalyticsInputs ==
    [productId : {JsStr("p1"), JsStr("constructor")},
     queryId : {JsStr("q1"), JsStr("__proto__")},
     type : {JsStr("relevant"), JsStr("not_relevant"), JsStr("maybe")},
     timestamp : {JsUndefined}]

\* Arguments of getProductFeedback and getQueryFeedback.
ProductIds == {JsStr("p1"), JsStr("p2"), JsStr("p3")}

QueryIds == {JsStr("q1"), JsStr("q2"), JsStr("q3")}

\* ['relevant', 'not_relevant'].includes(type)
RecognizedType(type) == type \in {JsStr("relevant"), JsStr("not_relevant")}

\* feedback.timestamp && (typeof feedback.timestamp !== 'number' || feedback.timestamp < 0)
BadTimestamp(timestamp) ==
    Truthy(timestamp) /\ (timestamp.t # "number" \/ timestamp.n < 0)

\* Mutant: validateFeedback without its timestamp check.
validateFeedbackWithoutTimestamp(feedback) ==
    IF ~Truthy(feedback.productId) \/ feedback.productId.t # "string"
    THEN "Product ID is required and must be a string"
    ELSE IF ~Truthy(feedback.queryId) \/ feedback.queryId.t # "string"
    THEN "Query ID is required and must be a string"
    ELSE IF ~RecognizedType(feedback.type)
    THEN "Feedback type must be either \"relevant\" or \"not_relevant\""
    ELSE Undefined

\* The message validateFeedback throws, or Undefined when it returns.
validateFeedback(feedback) ==
    IF ~Truthy(feedback.productId) \/ feedback.productId.t # "string"
    THEN "Product ID is required and must be a string"
    ELSE IF ~Truthy(feedback.queryId) \/ feedback.queryId.t # "string"
    THEN "Query ID is required and must be a string"
    ELSE IF ~RecognizedType(feedback.type)
    THEN "Feedback type must be either \"relevant\" or \"not_relevant\""
    ELSE IF BadTimestamp(feedback.timestamp)
    THEN "Timestamp must be a positive number"
    ELSE Undefined

\* { ...feedback, timestamp: feedback.timestamp || Date.now() }
StoredFeedback(feedback, clock) ==
    [feedback EXCEPT !.timestamp = IF Truthy(@) THEN @ ELSE JsNum(clock)]

\* Mutant: the entry is put in front (unshift).
PushFront(store, entry) == <<entry>> \o store

\* this.feedbackStore.push(entry)
Push(store, entry) == Append(store, entry)

\* events.filter(f => f.type === 'relevant').length
RelevantCount(events) ==
    Cardinality({i \in DOMAIN events : events[i].type = JsStr("relevant")})

\* events.filter(f => f.type === 'not_relevant').length
NotRelevantCount(events) ==
    Cardinality({i \in DOMAIN events : events[i].type = JsStr("not_relevant")})

\* Mutant: the quotient is truncated (Math.floor) instead of rounded.
RoundDivTruncating(numerator, denominator) == numerator \div denominator

\* Math.round(numerator / denominator) for numerator >= 0, denominator > 0.
RoundDiv(numerator, denominator) ==
    (2 * numerator + denominator) \div (2 * denominator)

\* Math.round(rate * 100) / 100 of the percentage relevant / total, in
\* hundredths of a percent; 0 when there is no feedback.
RelevanceRate(relevant, total) ==
    IF total > 0 THEN RoundDiv(relevant * 10000, total) ELSE 0

\* Mutant: the filter keeps the events of the other products.
ProductFeedbackOfOthers(store, productId) ==
    SelectSeq(store, LAMBDA f : f.productId # productId)

\* this.feedbackStore.filter(f => f.productId === productId)
ProductFeedbackOf(store, productId) ==
    SelectSeq(store, LAMBDA f : f.productId = productId)

\* this.feedbackStore.filter(f => f.queryId === queryId)
QueryFeedbackOf(store, queryId) ==
    SelectSeq(store, LAMBDA f : f.queryId = queryId)

\* The keys of a reduce accumulator, in insertion order.
RECURSIVE InsertionOrder(_)
InsertionOrder(keys) ==
    IF keys = <<>> THEN <<>>
    ELSE LET before == InsertionOrder(SubSeq(keys, 1, Len(keys) - 1))
             key == keys[Len(keys)]
         IN IF \E i \in DOMAIN before : before[i] = key
            THEN before
            ELSE Append(before, key)

\* One row of byProduct or byQuery: the key, its two counters and its rate.
GroupRow(key, members) ==
    [key |-> key,
     relevant |-> RelevantCount(members),
     not_relevant |-> NotRelevantCount(members),
     relevanceRate |->
        RoundDiv(RelevantCount(members) * 10000,
                 RelevantCount(members) + NotRelevantCount(members))]

\* The property names the accumulator {} of a reduce inherits from
\* Object.prototype. acc[key] is truthy for each of them, so the reducer
\* never assigns acc[key] and increments a counter of the inherited value.
InheritedProperties ==
    {"constructor", "__proto__", "hasOwnProperty", "isPrototypeOf",
     "propertyIsEnumerable", "toLocaleString", "toString", "valueOf",
     "__defineGetter__", "__defineSetter__", "__lookupGetter__",
     "__lookupSetter__"}

\* The ids of a list that become own properties of the accumulator.
OwnKeys(ids) == SelectSeq(ids, LAMBDA id : id.s \notin InheritedProperties)

\* byProduct: Object.entries(productFeedback).map(...)
ByProduct(store) ==
    LET keys == InsertionOrder(OwnKeys([i \in DOMAIN store |-> store[i].productId]))
    IN [i \in DOMAIN keys |-> GroupRow(keys[i], ProductFeedbackOf(store, keys[i]))]

\* byQuery: Object.entries(queryFeedback).map(...)
ByQuery(store) ==
    LET keys == InsertionOrder(OwnKeys([i \in DOMAIN store |-> store[i].queryId]))
    IN [i \in DOMAIN keys |-> GroupRow(keys[i], QueryFeedbackOf(store, keys[i]))]

\* this.feedbackStore.filter(f => f.timestamp > oneWeekAgo)
ThisWeek(store, clock) ==
    SelectSeq(store, LAMBDA f : f.timestamp.n > clock - 7 * DayMs)

\* this.feedbackStore.filter(f => f.timestamp > twoWeeksAgo && f.timestamp <= oneWeekAgo)
LastWeek(store, clock) ==
    SelectSeq(store, LAMBDA f :
        f.timestamp.n > clock - 14 * DayMs /\ f.timestamp.n <= clock - 7 * DayMs)

\* Mutant: equal rates are reported as improving.
TrendDirectionNeverStable(trend) ==
    IF trend >= 0 THEN "improving" ELSE "declining"

\* trend > 0 ? 'improving' : trend < 0 ? 'declining' : 'stable'
TrendDirection(trend) ==
    IF trend > 0 THEN "improving" ELSE IF trend < 0 THEN "declining" ELSE "stable"

\* calculateTrends(): the two windows, their rounded rates, and the direction
\* and size of the difference of the unrounded rates.
calculateTrends(store, clock) ==
    LET thisWeek == ThisWeek(store, clock)
        lastWeek == LastWeek(store, clock)
        \* thisWeekRelevance - lastWeekRelevance as the fraction num / den
        thisDen == IF Len(thisWeek) > 0 THEN Len(thisWeek) ELSE 1
        lastDen == IF Len(lastWeek) > 0 THEN Len(lastWeek) ELSE 1
        num == RelevantCount(thisWeek) * lastDen - RelevantCount(lastWeek) * thisDen
        den == thisDen * lastDen
        abs == IF num < 0 THEN 0 - num ELSE num
    IN [thisWeek |-> [count |-> Len(thisWeek),
                      relevanceRate |->
                          RelevanceRate(RelevantCount(thisWeek), Len(thisWeek))],
        lastWeek |-> [count |-> Len(lastWeek),
                      relevanceRate |->
                          RelevanceRate(RelevantCount(lastWeek), Len(lastWeek))],
        trend |-> [direction |-> TrendDirection(num),
                   change |-> RoundDiv(abs * 10000, den)]]

\* The object getFeedbackAnalytics returns; rates in hundredths of a percent.
Analytics(store, clock) ==
    LET recentFeedback == SelectSeq(store, LAMBDA f : f.timestamp.n > clock - DayMs)
    IN [summary |-> [totalFeedback |-> Len(store),
                     relevantCount |-> RelevantCount(store),
                     notRelevantCount |-> NotRelevantCount(store),
                     relevanceRate |-> RelevanceRate(RelevantCount(store), Len(store))],
        byProduct |-> ByProduct(store),
        byQuery |-> ByQuery(store),
        recent |-> [count |-> Len(recentFeedback),
                    relevant |-> RelevantCount(recentFeedback),
                    notRelevant |-> NotRelevantCount(recentFeedback)],
        trends |-> calculateTrends(store, clock)]

NoReply ==
    [op |-> "none", error |-> Undefined, events |-> <<>>, analytics |-> Undefined]

\* submitFeedback: validate, then push the entry with its timestamp.
SubmitFeedback(feedback) ==
    /\ IF validateFeedback(feedback) # Undefined
       THEN /\ feedbackStore' = feedbackStore
            /\ reply' = [NoReply EXCEPT !.op = "submitFeedback",
                                        !.error = validateFeedback(feedback)]
       ELSE /\ Len(feedbackStore) < MaxStore
            /\ feedbackStore' = Push(feedbackStore, StoredFeedback(feedback, now))
            /\ reply' = [NoReply EXCEPT !.op = "submitFeedback"]
    /\ UNCHANGED now
    /\ UNCHANGED notFeedbackVars

GetFeedbackAnalytics ==
    /\ reply' = [NoReply EXCEPT !.op = "getFeedbackAnalytics",
                                !.analytics = Analytics(feedbackStore, now)]
    /\ UNCHANGED <<feedbackStore, now>>
    /\ UNCHANGED notFeedbackVars

GetProductFeedback(productId) ==
    /\ reply' = [NoReply EXCEPT !.op = "getProductFeedback",
                                !.events = ProductFeedbackOf(feedbackStore, productId)]
    /\ UNCHANGED <<feedbackStore, now>>
    /\ UNCHANGED notFeedbackVars

GetQueryFeedback(queryId) ==
    /\ reply' = [NoReply EXCEPT !.op = "getQueryFeedback",
                                !.events = QueryFeedbackOf(feedbackStore, queryId)]
    /\ UNCHANGED <<feedbackStore, now>>
    /\ UNCHANGED notFeedbackVars

\* A day passes.
Tick ==
    /\ now < StartMs + MaxDays * DayMs
    /\ now' = now + DayMs
    /\ UNCHANGED <<feedbackStore, reply>>
    /\ UNCHANGED notFeedbackVars

(***************************************************************************)
(* PincodeService                                                          *)
(***************************************************************************)
\* Bounds of the model: the calls in flight at once, the steps of StepMs the
\* clock takes within a day, and the days the clock runs.
MaxCalls == 2

MaxSteps == 1

MaxCacheDays == 1

CallIds == 1..MaxCalls

\* private readonly cacheTimeout = 24 * 60 * 60 * 1000
cacheTimeout == 24 * 60 * 60 * 1000

\* axios.get(..., { timeout: 5000 }): a request is answered or fails within
\* this time.
AxiosTimeoutMs == 5000

\* The time between two events of the model that are close to each other.
StepMs == AxiosTimeoutMs \div 5

AsciiDigits == {"0", "1", "2", "3", "4", "5", "6", "7", "8", "9"}

\* Pincodes as the sequences of their characters: two of six digits (one of
\* the major-city codes of getDeliveryCost and one that is not), one of
\* five digits, one of seven digits, one with a letter, one with a digit
\* that is not an ASCII digit, and the empty one.
WellFormedPincodes ==
    {<<"1", "1", "0", "0", "0", "1">>, <<"5", "6", "0", "0", "0", "2">>}

MalformedPincodes ==
    {<<"1", "1", "0", "0", "0">>,
     <<"1", "1", "0", "0", "0", "1", "2">>,
     <<"1", "1", "0", "a", "0", "1">>,
     <<"1", "1", "0", "0", "0", "arabic-indic digit one">>,
     <<>>}

PincodeInputs == WellFormedPincodes \cup MalformedPincodes

\* response.data[0].PostOffice[0] of the external service for a pincode.
PostOffice(pincode) ==
    IF pincode = <<"1", "1", "0", "0", "0", "1">>
    THEN [District |-> "Central Delhi", State |-> "Delhi"]
    ELSE [District |-> "Bangalore", State |-> "Karnataka"]

\* What becomes of an axios.get: Status 'Success' with a post office, any
\* other answer, Status 'Success' without a post office (reading
\* PostOffice[0] throws), or a rejection (network error, timeout).
Responses == {"success", "notFound", "noPostOffice", "failure"}

\* Mutant: the pattern is not anchored at the end.
MatchesSixDigitsAtStart(pincode) ==
    /\ Len(pincode) >= 6
    /\ \A i \in 1..6 : pincode[i] \in AsciiDigits

\* /^\d{6}$/.test(pincode)
MatchesSixDigits(pincode) ==
    /\ Len(pincode) = 6
    /\ \A i \in 1..Len(pincode) : pincode[i] \in AsciiDigits

\* const cacheKey = `pincode-${pincode}`
CacheKey(pincode) == <<"pincode-">> \o pincode

\* The PincodeValidationResult objects validatePincode returns.
FormatError ==
    [valid |-> FALSE, city |-> Undefined, state |-> Undefined,
     error |-> "Pincode must be a 6-digit number"]

NotFound ==
    [valid |-> FALSE, city |-> Undefined, state |-> Undefined,
     error |-> "Invalid pincode or not found"]

Found(pincode) ==
    [valid |-> TRUE, city |-> PostOffice(pincode).District,
     state |-> PostOffice(pincode).State, error |-> Undefined]

\* Mutant: the catch block reports every failure as an invalid pincode.
FallbackAlwaysInvalid(pincode) ==
    [valid |-> FALSE, city |-> Undefined, state |-> Undefined,
     error |-> "Unable to validate pincode at this time"]

\* The catch block: a pincode of six digits is taken as valid, of unknown
\* city and state.
Fallback(pincode) ==
    IF MatchesSixDigits(pincode)
    THEN [valid |-> TRUE, city |-> "Unknown", state |-> "Unknown",
          error |-> Undefined]
    ELSE [valid |-> FALSE, city |-> Undefined, state |-> Undefined,
          error |-> "Unable to validate pincode at this time"]

\* The result of validatePincode once axios.get has settled.
ValidationOf(response, pincode) ==
    CASE response = "success" -> Found(pincode)
      [] response = "notFound" -> NotFound
      [] OTHER -> Fallback(pincode)

\* The cost field of an answer that is no delivery information.
NoCost == -1

IdleCall == [state |-> "idle", op |-> "none", pincode |-> <<>>, retailer |-> Undefined]

NoAnswer ==
    [op |-> "none", pincode |-> <<>>, retailer |-> Undefined,
     validation |-> FormatError, thrown |-> Undefined, available |-> FALSE,
     city |-> Undefined, state |-> Undefined, lookedUp |-> FALSE, at |-> 0,
     cost |-> NoCost]

\* const majorCityPincodes = ['110001', '400001', '560001', '600001', '700001']
majorCityPincodes ==
    {<<"1", "1", "0", "0", "0", "1">>, <<"4", "0", "0", "0", "0", "1">>,
     <<"5", "6", "0", "0", "0", "1">>, <<"6", "0", "0", "0", "0", "1">>,
     <<"7", "0", "0", "0", "0", "1">>}

\* The baseCosts table of getDeliveryCost for a pincode.
baseCosts(pincode) ==
    LET isMajorCity == pincode \in majorCityPincodes
    IN  [retailer \in Retailers |->
            CASE retailer = "amazon" -> 0
              [] retailer = "flipkart" -> (IF isMajorCity THEN 0 ELSE 40)
              [] retailer = "myntra" -> (IF isMajorCity THEN 0 ELSE 50)
              [] retailer = "meesho" -> (IF isMajorCity THEN 30 ELSE 60)]

\* return baseCosts[retailer] || 50: a cost of 0 is falsy and gives way to
\* 50.
getDeliveryCost(retailer, pincode) ==
    IF baseCosts(pincode)[retailer] # 0
    THEN baseCosts(pincode)[retailer] ELSE 50

\* What the caller of op gets for the result of validatePincode:
\* validatePincode returns it; getDeliveryInfo throws its error when it is
\* not valid and otherwise returns the delivery details with the location.
Outcome(op, pincode, retailer, validation, lookedUp) ==
    [op |-> op, pincode |-> pincode, retailer |-> retailer,
     validation |-> validation,
     thrown |-> IF op = "getDeliveryInfo" /\ ~validation.valid
                THEN (IF validation.error # Undefined /\ validation.error # ""
                      THEN validation.error ELSE "Invalid pincode")
                ELSE Undefined,
     available |-> op = "getDeliveryInfo" /\ validation.valid,
     city |-> IF op = "getDeliveryInfo" /\ validation.valid
              THEN validation.city ELSE Undefined,
     state |-> IF op = "getDeliveryInfo" /\ validation.valid
               THEN validation.state ELSE Undefined,
     lookedUp |-> lookedUp, at |-> elapsed,
     cost |-> IF op = "getDeliveryInfo" /\ validation.valid
              THEN getDeliveryCost(retailer, pincode) ELSE NoCost]

\* this.cache.set(cacheKey, result)
CacheSet(map, key, value) ==
    [k \in DOMAIN map \cup {key} |-> IF k = key THEN value ELSE map[k]]

\* this.cache.delete(cacheKey)
CacheDelete(map, key) == [k \in DOMAIN map \ {key} |-> map[k]]

\* A call of validatePincode (by itself or from getDeliveryInfo) up to its
\* first await: the cached result if there is one, the format error for a
\* malformed pincode, and otherwise the request to the external service.
Begin(c, op, pincode, retailer) ==
    /\ calls[c].state = "idle"
    /\ IF CacheKey(pincode) \in DOMAIN cache
       THEN /\ answer' = Outcome(op, pincode, retailer,
                                 cache[CacheKey(pincode)].result, FALSE)
            /\ calls' = calls
       ELSE IF ~MatchesSixDigits(pincode)
       THEN /\ answer' = Outcome(op, pincode, retailer, FormatError, FALSE)
            /\ calls' = calls
       ELSE /\ calls' = [calls EXCEPT ![c] =
                            [state |-> "waiting", op |-> op,
                             pincode |-> pincode, retailer |-> retailer]]
            /\ answer' = answer
    /\ UNCHANGED <<cache, evictions, elapsed>>
    /\ UNCHANGED notPincodeVars

ValidatePincode(c, pincode) == Begin(c, "validatePincode", pincode, Undefined)

GetDeliveryInfo(c, pincode, retailer) ==
    Begin(c, "getDeliveryInfo", pincode, retailer)

\* axios.get of call c settles: a found pincode is cached, with a timer that
\* deletes its key after cacheTimeout; the call returns.
Responds(c, response) ==
    /\ calls[c].state = "waiting"
    /\ LET pincode == calls[c].pincode
           validation == ValidationOf(response, pincode)
       IN /\ IF response = "success"
             THEN /\ cache' = CacheSet(cache, CacheKey(pincode),
                                       [result |-> validation, writtenAt |-> elapsed])
                  /\ evictions' = evictions \cup
                        {[key |-> CacheKey(pincode), due |-> elapsed + cacheTimeout]}
             ELSE UNCHANGED <<cache, evictions>>
          /\ answer' = Outcome(calls[c].op, pincode, calls[c].retailer,
                               validation, TRUE)
    /\ calls' = [calls EXCEPT ![c] = IdleCall]
    /\ UNCHANGED elapsed
    /\ UNCHANGED notPincodeVars

\* setTimeout(() => this.cache.delete(cacheKey), this.cacheTimeout) comes due.
EvictionFires(eviction) ==
    /\ eviction \in evictions
    /\ elapsed >= eviction.due
    /\ cache' = CacheDelete(cache, eviction.key)
    /\ evictions' = evictions \ {eviction}
    /\ UNCHANGED <<calls, elapsed, answer>>
    /\ UNCHANGED notPincodeVars

\* Time passes, by StepMs, up to the time the next timer is due, or by a
\* day: never beyond a timer that is due, and by more than the axios
\* timeout only while no request is in flight.
TimePasses(target) ==
    /\ target > elapsed
    /\ target <= MaxCacheDays * cacheTimeout + MaxSteps * StepMs
    /\ target % cacheTimeout <= MaxSteps * StepMs
    /\ \A eviction \in evictions : eviction.due >= target
    /\ target - elapsed > AxiosTimeoutMs =>
          \A c \in CallIds : calls[c].state = "idle"
    /\ elapsed' = target
    /\ UNCHANGED <<cache, calls, evictions, answer>>
    /\ UNCHANGED notPincodeVars

\* The times the clock can move to next.
NextTimes ==
    {elapsed + StepMs, elapsed + cacheTimeout}
        \cup {eviction.due : eviction \in evictions}

(***************************************************************************)
(* IntentParserService                                                     *)
(***************************************************************************)
\* A string is the sequence of its characters; a character outside ASCII
\* is written by its name.
RupeeSign == "rupee sign"

UpperCaseLetters ==
    <<"A", "B", "C", "D", "E", "F", "G", "H", "I", "J", "K", "L", "M",
      "N", "O", "P", "Q", "R", "S", "T", "U", "V", "W", "X", "Y", "Z">>

LowerCaseLetters ==
    <<"a", "b", "c", "d", "e", "f", "g", "h", "i", "j", "k", "l", "m",
      "n", "o", "p", "q", "r", "s", "t", "u", "v", "w", "x", "y", "z">>

\* query.toLowerCase()
toLowerCase(str) ==
    [i \in 1..Len(str) |->
        IF \E k \in DOMAIN UpperCaseLetters : UpperCaseLetters[k] = str[i]
        THEN LowerCaseLetters[CHOOSE k \in DOMAIN UpperCaseLetters :
                                 UpperCaseLetters[k] = str[i]]
        ELSE str[i]]

\* Whether word occurs in str at position i.
StartsAt(str, i, word) ==
    /\ i + Len(word) - 1 <= Len(str)
    /\ \A k \in 1..Len(word) : str[i + k - 1] = word[k]

\* str.includes(word)
includes(str, word) == \E i \in 1..(Len(str) + 1) : StartsAt(str, i, word)

productKeywords ==
    <<(<<"s", "h", "o", "e", "s">>),
      (<<"s", "h", "i", "r", "t">>),
      (<<"l", "a", "p", "t", "o", "p">>),
      (<<"p", "h", "o", "n", "e">>),
      (<<"s", "m", "a", "r", "t", "p", "h", "o", "n", "e">>),
      (<<"j", "e", "a", "n", "s">>),
      (<<"d", "r", "e", "s", "s">>),
      (<<"w", "a", "t", "c", "h">>),
      (<<"b", "a", "g">>)>>

\* let productType = 'product'
DefaultProductType == <<"p", "r", "o", "d", "u", "c", "t">>

\* for (const keyword of productKeywords) { if (lowerQuery.includes(keyword))
\* { productType = keyword; break } }
ProductTypeOf(lowerQuery) ==
    LET hits == {k \in DOMAIN productKeywords :
                    includes(lowerQuery, productKeywords[k])}
    IN  IF hits = {} THEN DefaultProductType
        ELSE productKeywords[CHOOSE k \in hits : \A h \in hits : k <= h]

\* The alternatives of (?:under|below|less than|₹|rs\.?|rupees?) in the order
\* the regular expression tries them; an optional character is tried first.
BudgetWords ==
    <<(<<"u", "n", "d", "e", "r">>),
      (<<"b", "e", "l", "o", "w">>),
      (<<"l", "e", "s", "s", " ", "t", "h", "a", "n">>),
      (<<RupeeSign>>),
      (<<"r", "s", ".">>),
      (<<"r", "s">>),
      (<<"r", "u", "p", "e", "e", "s">>),
      (<<"r", "u", "p", "e", "e">>)>>

\* Mutant: the regular expression without its two-word alternative.
BudgetWordsAtOneWord(str, i) ==
    {k \in DOMAIN BudgetWords \ {3} : StartsAt(str, i, BudgetWords[k])}

\* The alternatives that match str at position i.
BudgetWordsAt(str, i) ==
    {k \in DOMAIN BudgetWords : StartsAt(str, i, BudgetWords[k])}

\* \s of a regular expression without the u flag, for the characters used.
Whitespace == {" ", "tab", "no-break space"}

\* \d
IsDigit(str, i) == i <= Len(str) /\ str[i] \in AsciiDigits

\* \s*: the position after the whitespace that starts at position i.
RECURSIVE SkipWhitespace(_, _)
SkipWhitespace(str, i) ==
    IF i <= Len(str) /\ str[i] \in Whitespace
    THEN SkipWhitespace(str, i + 1)
    ELSE i

\* \d+: the position of the last digit of the digits that start at position i.
RECURSIVE DigitsEnd(_, _)
DigitsEnd(str, i) ==
    IF IsDigit(str, i + 1) THEN DigitsEnd(str, i + 1) ELSE i

\* (?:,\d+)*: the position where the groups after position e end.
RECURSIVE GroupsEnd(_, _)
GroupsEnd(str, e) ==
    IF e + 1 <= Len(str) /\ str[e + 1] = "," /\ IsDigit(str, e + 2)
    THEN GroupsEnd(str, DigitsEnd(str, e + 2))
    ELSE e

\* Where the capture group starts when the regular expression matches at
\* position i, 0 when it does not match there.
CaptureStart(str, i) ==
    LET starts == {SkipWhitespace(str, i + Len(BudgetWords[k])) :
                      k \in BudgetWordsAt(str, i)}
        ok == {s \in starts : IsDigit(str, s)}
    IN  IF ok = {} THEN 0 ELSE CHOOSE s \in ok : TRUE

\* lowerQuery.match(/(?:under|below|less than|₹|rs\.?|rupees?)\s*(\d+(?:,\d+)*)/i):
\* budgetMatch[1] of the leftmost match, <<>> when there is no match.
budgetMatch(lowerQuery) ==
    LET at == {i \in 1..Len(lowerQuery) : CaptureStart(lowerQuery, i) # 0}
    IN  IF at = {} THEN <<>>
        ELSE LET i == CHOOSE i \in at : \A j \in at : i <= j
                 s == CaptureStart(lowerQuery, i)
             IN  SubSeq(lowerQuery, s, GroupsEnd(lowerQuery, DigitsEnd(lowerQuery, s)))

\* budgetMatch[1].replace(/,/g, '')
WithoutCommas(str) == SelectSeq(str, LAMBDA c : c # ",")

DigitValue(c) ==
    CASE c = "0" -> 0 [] c = "1" -> 1 [] c = "2" -> 2 [] c = "3" -> 3
      [] c = "4" -> 4 [] c = "5" -> 5 [] c = "6" -> 6 [] c = "7" -> 7
      [] c = "8" -> 8 [] c = "9" -> 9

\* parseInt of a string of decimal digits.
RECURSIVE parseInt(_)
parseInt(digits) ==
    IF digits = <<>> THEN 0
    ELSE 10 * parseInt(SubSeq(digits, 1, Len(digits) - 1))
            + DigitValue(digits[Len(digits)])

\* let budget = null
NoBudget == [isNull |-> TRUE, min |-> 0, max |-> 0]

\* The budget of the fallback parser.
BudgetOf(lowerQuery) ==
    IF budgetMatch(lowerQuery) = <<>> THEN NoBudget
    ELSE [isNull |-> FALSE, min |-> 0,
          max |-> parseInt(WithoutCommas(budgetMatch(lowerQuery)))]

featureWords ==
    <<(<<"r", "u", "n", "n", "i", "n", "g">>),
      (<<"f", "o", "r", "m", "a", "l">>),
      (<<"c", "a", "s", "u", "a", "l">>),
      (<<"g", "a", "m", "i", "n", "g">>)>>

\* if (lowerQuery.includes('running')) features.push('running') ...
FeaturesOf(lowerQuery) ==
    SelectSeq(featureWords, LAMBDA word : includes(lowerQuery, word))

\* fallbackParsing(query)
fallbackParsing(text) ==
    [productType |-> ProductTypeOf(toLowerCase(text)),
     budget |-> BudgetOf(toLowerCase(text)),
     features |-> FeaturesOf(toLowerCase(text)),
     brand |-> "<null>"]

\* What JSON.parse can give for the content of a completion: null, or an
\* object with the properties of a ParsedIntent as JavaScript values.
Doc(isNull, productType, budget, features) ==
    [isNull |-> isNull, productType |-> productType, budget |-> budget,
     features |-> features]

\* The budget property of a document: null, or an object with min and max.
NullBudget == [isNull |-> TRUE, min |-> JsUndefined, max |-> JsUndefined]

ObjectBudget(min, max) == [isNull |-> FALSE, min |-> min, max |-> max]

\* The features property of a document: an array or undefined.
Documents ==
    {Doc(FALSE, JsStr("running shoes"), ObjectBudget(JsNum(0), JsNum(3000)), [isArray |-> TRUE]),
     Doc(FALSE, JsStr("formal shirt"), NullBudget, [isArray |-> TRUE]),
     Doc(TRUE, JsUndefined, NullBudget, [isArray |-> FALSE]),
     Doc(FALSE, JsUndefined, NullBudget, [isArray |-> TRUE]),
     Doc(FALSE, JsStr(""), NullBudget, [isArray |-> TRUE]),
     Doc(FALSE, JsNum(5), NullBudget, [isArray |-> TRUE]),
     Doc(FALSE, JsStr("laptop"), ObjectBudget(JsStr("0"), JsNum(3000)), [isArray |-> TRUE]),
     Doc(FALSE, JsStr("laptop"), ObjectBudget(JsNum(0), JsUndefined), [isArray |-> TRUE]),
     Doc(FALSE, JsStr("laptop"), NullBudget, [isArray |-> FALSE])}

NoDocument == Doc(TRUE, JsUndefined, NullBudget, [isArray |-> FALSE])

\* What openai.chat.completions.create settles to: a rejection, or a response
\* whose content is undefined, null, the empty string, text that is no JSON,
\* or the JSON text of a document.
Completions ==
    [rejected : {TRUE}, content : {"undefined"}, document : {NoDocument}]
    \cup [rejected : {FALSE}, content : {"undefined", "null", "empty", "text"},
          document : {NoDocument}]
    \cup [rejected : {FALSE}, content : {"json"}, document : Documents]

\* if (!content)
NoContent(completion) == completion.content \in {"undefined", "null", "empty"}

\* JSON.parse(content) throws a SyntaxError.
JsonParseThrows(completion) == completion.content # "json"

\* Mutant: the features of the intent are not checked.
validateParsedIntentWithoutFeatures(intent) ==
    IF intent.isNull THEN "Cannot read properties of null"
    ELSE IF ~Truthy(intent.productType) \/ intent.productType.t # "string"
    THEN "Invalid productType in parsed intent"
    ELSE IF /\ ~intent.budget.isNull
            /\ (intent.budget.min.t # "number" \/ intent.budget.max.t # "number")
    THEN "Invalid budget format in parsed intent"
    ELSE ""

\* validateParsedIntent(intent): the message of the Error it throws, "" when
\* it returns.
validateParsedIntent(intent) ==
    IF intent.isNull THEN "Cannot read properties of null"
    ELSE IF ~Truthy(intent.productType) \/ intent.productType.t # "string"
    THEN "Invalid productType in parsed intent"
    ELSE IF /\ ~intent.budget.isNull
            /\ (intent.budget.min.t # "number" \/ intent.budget.max.t # "number")
    THEN "Invalid budget format in parsed intent"
    ELSE IF ~intent.features.isArray
    THEN "Invalid features format in parsed intent"
    ELSE ""

\* The rule-based result of a call that did not use the fallback parser.
NoIntent ==
    [productType |-> <<>>, budget |-> NoBudget, features |-> <<>>,
     brand |-> "<null>"]

\* The completion call rejects.
ApiError == [rejected |-> TRUE, content |-> "undefined", document |-> NoDocument]

\* No IntentParserService call is waiting for its response.
NoParse ==
    [op |-> "none", text |-> <<>>, completion |-> ApiError, settled |-> "none",
     error |-> Undefined, fallback |-> FALSE, intent |-> NoIntent,
     document |-> NoDocument]

\* What a call settles to for a completion: a rejection with a message, the
\* result of the fallback parser, or the document the service answered.
Rejection(op, text, completion, message) ==
    [op |-> op, text |-> text, completion |-> completion,
     settled |-> "rejected", error |-> message, fallback |-> FALSE,
     intent |-> NoIntent, document |-> NoDocument]

FallbackResult(op, text, completion) ==
    [op |-> op, text |-> text, completion |-> completion,
     settled |-> "resolved", error |-> Undefined, fallback |-> TRUE,
     intent |-> fallbackParsing(text), document |-> NoDocument]

DocumentResult(op, text, completion) ==
    [op |-> op, text |-> text, completion |-> completion,
     settled |-> "resolved", error |-> Undefined, fallback |-> FALSE,
     intent |-> NoIntent, document |-> completion.document]

\* parseQuery(query) when the completion call settles to completion.
ParseQuery(text, completion) ==
    /\ parsed = NoParse
    /\ parsed' =
          IF \/ completion.rejected
             \/ NoContent(completion)
             \/ JsonParseThrows(completion)
             \/ validateParsedIntent(completion.document) # ""
          THEN FallbackResult("parseQuery", text, completion)
          ELSE DocumentResult("parseQuery", text, completion)
    /\ UNCHANGED notIntentVars

\* extractEntities(text) when the completion call settles to completion.
ExtractEntities(text, completion) ==
    /\ parsed = NoParse
    /\ parsed' =
          IF \/ completion.rejected
             \/ NoContent(completion)
             \/ JsonParseThrows(completion)
          THEN Rejection("extractEntities", text, completion,
                         "Failed to extract entities from query")
          ELSE DocumentResult("extractEntities", text, completion)
    /\ UNCHANGED notIntentVars

\* The route sends the response of the call.
SendIntent ==
    /\ parsed # NoParse
    /\ parsed' = NoParse
    /\ UNCHANGED notIntentVars

\* Bounds of the model: the fragments a query is put together from.
MaxFragments == 4

MaxKeywordFragments == 3

\* The concatenations of at most n of the fragments.
RECURSIVE QueriesOf(_, _)
QueriesOf(fragments, n) ==
    IF n = 0 THEN {<<>>}
    ELSE LET shorter == QueriesOf(fragments, n - 1)
         IN  shorter \cup {q \o f : q \in shorter, f \in fragments}

\* Fragments of queries that name a budget, or nearly do.
BudgetFragments ==
    {<<"u", "n", "d", "e", "r">>,
     <<"B", "e", "l", "o", "w">>,
     <<"l", "e", "s", "s">>,
     <<"t", "h", "a", "n">>,
     <<RupeeSign>>,
     <<"R", "s">>,
     <<".">>,
     <<"r", "u", "p", "e", "e">>,
     <<"s">>,
     <<" ">>,
     <<"tab">>,
     <<"3">>,
     <<"0", "5", "0">>,
     <<",">>}

BudgetQueries == QueriesOf(BudgetFragments, MaxFragments) \ {<<>>}

\* Fragments of queries that mention product keywords.
KeywordFragments ==
    {productKeywords[k] : k \in DOMAIN productKeywords}
        \cup {<<"s", "m", "a", "r", "t">>, <<"S", "h", "o", "e">>, <<"s">>,
              <<" ">>, <<"t", "v">>}

KeywordQueries == QueriesOf(KeywordFragments, MaxKeywordFragments) \ {<<>>}

\* The queries of the service's tests.
IntentQueries ==
    {<<"l", "a", "p", "t", "o", "p", " ", "f", "o", "r", " ", "g", "a", "m", "i", "n", "g">>,
     <<"r", "u", "n", "n", "i", "n", "g", " ", "s", "h", "o", "e", "s", " ",
       "u", "n", "d", "e", "r", " ", "3", "0", "0", "0">>,
     <<"t", "e", "s", "t", " ", "q", "u", "e", "r", "y">>,
     <<"f", "o", "r", "m", "a", "l", " ", "s", "h", "i", "r", "t">>,
     <<"l", "a", "p", "t", "o", "p", " ", "u", "n", "d", "e", "r", " ",
       RupeeSign, "5", "0", "0", "0", "0">>}

(***************************************************************************)
(* searchSlice: the search store of the front end                          *)
(***************************************************************************)
\* Payloads of the actions: queries, intents, results and error messages.
StoreQueries == {"shoes under 3000", "formal shirt"}

StoreIntents == {"shoes", "shirt"}

StoreErrors == {"Network error"}

StoreResults ==
    {[status |-> "loading", products |-> <<>>, error |-> Undefined],
     [status |-> "success", products |-> <<"product">>, error |-> Undefined],
     [status |-> "error", products |-> <<>>, error |-> "Search failed"],
     [status |-> "not_deliverable", products |-> <<>>, error |-> Undefined]}

\* initialState
initialState ==
    [currentQuery |-> "<null>",
     parsedIntent |-> "<null>",
     results |-> InitialResults,
     isSearching |-> FALSE,
     error |-> "<null>"]

setQuery(payload) ==
    /\ slice' = [slice EXCEPT !.currentQuery = payload]
    /\ UNCHANGED notSliceVars

setParsedIntent(payload) ==
    /\ slice' = [slice EXCEPT !.parsedIntent = payload]
    /\ UNCHANGED notSliceVars

\* Object.keys(state.results).forEach(...): every entry becomes loading.
startSearch ==
    /\ slice' = [slice EXCEPT
                   !.isSearching = TRUE,
                   !.error = "<null>",
                   !.results = [r \in DOMAIN slice.results |-> LoadingResult]]
    /\ UNCHANGED notSliceVars

\* Mutant: a result for a retailer also ends the search.
setRetailerResultEndingSearch(retailer, result) ==
    /\ slice' = [slice EXCEPT
                   !.results = Assign(slice.results, retailer, result),
                   !.isSearching = FALSE]
    /\ UNCHANGED notSliceVars

\* state.results[action.payload.retailer] = action.payload.result
setRetailerResult(retailer, result) ==
    /\ slice' = [slice EXCEPT !.results = Assign(slice.results, retailer, result)]
    /\ UNCHANGED notSliceVars

completeSearch ==
    /\ slice' = [slice EXCEPT !.isSearching = FALSE]
    /\ UNCHANGED notSliceVars

setError(payload) ==
    /\ slice' = [slice EXCEPT !.error = payload, !.isSearching = FALSE]
    /\ UNCHANGED notSliceVars

clearResults ==
    /\ slice' = [slice EXCEPT
                   !.results = initialState.results,
                   !.currentQuery = "<null>",
                   !.parsedIntent = "<null>",
                   !.error = "<null>"]
    /\ UNCHANGED notSliceVars

SliceInit == slice = initialState

SearchInit ==
    /\ pc = "idle"
    /\ query = NoQuery
    /\ delivery = NoDelivery
    /\ results = NoResults
    /\ adapter = [r \in Retailers |-> NotInvoked]
    /\ timer = [i \in Indexes |-> "unset"]
    /\ race = [i \in Indexes |-> PendingRace]
    /\ found = NotSearched

IntentInit == parsed = NoParse

FeedbackInit ==
    /\ feedbackStore = <<>>
    /\ now = StartMs
    /\ reply = NoReply

PincodeInit ==
    /\ cache = <<>>
    /\ calls = [c \in CallIds |-> IdleCall]
    /\ evictions = {}
    /\ elapsed = 0
    /\ answer = NoAnswer

Init ==
    SearchInit /\ IntentInit /\ SliceInit /\ FeedbackInit /\ PincodeInit

SearchNext ==
    \/ \E p \in Pincodes : ValidateDelivery(p)
    \/ SearchAllRetailers
    \/ LaunchSearches
    \/ \E i \in Indexes : \E products \in Batches(retailers[i]) :
          AdapterReturns(i, products)
    \/ \E i \in Indexes, t \in Thrown : AdapterThrows(i, t)
    \/ \E i \in Indexes : TimerFires(i)
    \/ ProcessResults
    \/ Respond

SearchSpec == Init /\ [][SearchNext]_vars

\* Both search routes, one request at a time: the route of one retailer with
\* every draw of the match scores, and searchAllRetailers.
ScoreNext ==
    \/ /\ pc = "idle"
       /\ found = NotSearched
       /\ \E retailer \in Retailers, draws \in ScoreDraws :
             SearchRetailer(retailer, draws)
    \/ SendProducts
    \/ found = NotSearched /\ SearchNext

ScoreSpec == Init /\ [][ScoreNext]_vars

\* Both calls of IntentParserService with every completion, one request at
\* a time.
IntentNext ==
    \/ /\ parsed = NoParse
       /\ \E text \in IntentQueries, completion \in Completions :
             ParseQuery(text, completion)
    \/ /\ parsed = NoParse
       /\ \E text \in IntentQueries, completion \in Completions :
             ExtractEntities(text, completion)
    \/ SendIntent

IntentSpec == Init /\ [][IntentNext]_vars

\* parseQuery on queries about budgets when the completion call rejects.
BudgetNext ==
    \/ /\ parsed = NoParse
       /\ \E text \in BudgetQueries : ParseQuery(text, ApiError)
    \/ SendIntent

BudgetSpec == Init /\ [][BudgetNext]_vars

\* parseQuery on queries about products when the completion call rejects.
KeywordNext ==
    \/ /\ parsed = NoParse
       /\ \E text \in KeywordQueries : ParseQuery(text, ApiError)
    \/ SendIntent

KeywordSpec == Init /\ [][KeywordNext]_vars

\* Every action of searchSlice with every payload.
SliceNext ==
    \/ \E payload \in StoreQueries : setQuery(payload)
    \/ \E payload \in StoreIntents : setParsedIntent(payload)
    \/ startSearch
    \/ \E retailer \in Retailers, result \in StoreResults :
          setRetailerResult(retailer, result)
    \/ completeSearch
    \/ \E payload \in StoreErrors : setError(payload)
    \/ clearResults

SliceSpec == Init /\ [][SliceNext]_vars

FeedbackNext ==
    \/ \E feedback \in FeedbackInputs : SubmitFeedback(feedback)
    \/ GetFeedbackAnalytics
    \/ \E productId \in ProductIds : GetProductFeedback(productId)
    \/ \E queryId \in QueryIds : GetQueryFeedback(queryId)
    \/ Tick

FeedbackSpec == Init /\ [][FeedbackNext]_vars

\* Submits with timestamps around the trend windows, and analytics calls.
TrendNext ==
    \/ \E feedback \in TrendInputs : SubmitFeedback(feedback)
    \/ GetFeedbackAnalytics
    \/ Tick

TrendSpec == Init /\ [][TrendNext]_vars

\* Submits for two products and two queries, and the two history readers.
HistoryNext ==
    \/ \E feedback \in HistoryInputs : SubmitFeedback(feedback)
    \/ \E productId \in ProductIds : GetProductFeedback(productId)
    \/ \E queryId \in QueryIds : GetQueryFeedback(queryId)

HistorySpec == Init /\ [][HistoryNext]_vars

\* Submits with ordinary ids and with names every object has, and analytics
\* calls.
AnalyticsNext ==
    \/ \E feedback \in AnalyticsInputs : SubmitFeedback(feedback)
    \/ GetFeedbackAnalytics

AnalyticsSpec == Init /\ [][AnalyticsNext]_vars

PincodeNext ==
    \/ \E c \in CallIds, pincode \in PincodeInputs : ValidatePincode(c, pincode)
    \/ \E c \in CallIds, pincode \in PincodeInputs, retailer \in Retailers :
          GetDeliveryInfo(c, pincode, retailer)
    \/ \E c \in CallIds, response \in Responses : Responds(c, response)
    \/ \E eviction \in evictions : EvictionFires(eviction)
    \/ \E target \in NextTimes : TimePasses(target)

PincodeSpec == Init /\ [][PincodeNext]_vars

\* One caller at a time, with well-formed and malformed pincodes.
GateNext ==
    \/ \E pincode \in PincodeInputs : ValidatePincode(1, pincode)
    \/ \E pincode \in PincodeInputs, retailer \in Retailers :
          GetDeliveryInfo(1, pincode, retailer)
    \/ \E response \in Responses : Responds(1, response)
    \/ \E eviction \in evictions : EvictionFires(eviction)
    \/ \E target \in NextTimes : TimePasses(target)

GateSpec == Init /\ [][GateNext]_vars

\* Concurrent validatePincode calls of well-formed pincodes.
CacheNext ==
    \/ \E c \in CallIds, pincode \in WellFormedPincodes :
          ValidatePincode(c, pincode)
    \/ \E c \in CallIds, response \in Responses : Responds(c, response)
    \/ \E eviction \in evictions : EvictionFires(eviction)
    \/ \E target \in NextTimes : TimePasses(target)

CacheSpec == Init /\ [][CacheNext]_vars

Next ==
    SearchNext \/ FeedbackNext \/ PincodeNext \/ ScoreNext \/ IntentNext
        \/ BudgetNext \/ KeywordNext \/ SliceNext \/ AnalyticsNext

Spec == Init /\ [][Next]_vars

\* Timers fire when due and a resolved allSettled runs its continuation;
\* nothing makes an adapter settle.
SearchFairSpec ==
    /\ SearchSpec
    /\ \A i \in Indexes : WF_vars(TimerFires(i))
    /\ WF_vars(ProcessResults)

(***************************************************************************)
(* Properties of searchAllRetailers                                        *)
(***************************************************************************)
InCall == pc \in {"initialized", "awaiting", "returned"}

SearchStatuses == {"loading", "success", "error", "not_deliverable"}

\* The adapter of retailers[i] had not settled when the timer of race i fired.
TimedOut(i) ==
    /\ timer[i] = "fired"
    /\ \/ adapter[retailers[i]].state = "pending"
       \/ adapter[retailers[i]].afterDeadline

\* The adapter of retailers[i] resolved before the timer of race i fired.
ReturnedInTime(i) ==
    /\ adapter[retailers[i]].state = "fulfilled"
    /\ ~adapter[retailers[i]].afterDeadline

\* The adapter of retailers[i] threw before the timer of race i fired.
ThrewInTime(i) ==
    /\ adapter[retailers[i]].state = "rejected"
    /\ ~adapter[retailers[i]].afterDeadline

TimeoutEntry ==
    [status |-> "error", products |-> <<>>, error |-> "Search timeout or failed"]

\* C1: at every point of a searchAllRetailers call (results initialised,
\* searches in flight, results returned) the results object has exactly the
\* keys amazon, flipkart, myntra and meesho, each holding one well-formed
\* entry; before the searches are launched every entry is 'loading' with no
\* products.
C1_OneEntryPerRetailer ==
    InCall =>
        /\ DOMAIN results = {"amazon", "flipkart", "myntra", "meesho"}
        /\ \A r \in DOMAIN results :
              /\ results[r].status \in SearchStatuses
              /\ results[r].products \in Batches(r)
        /\ pc = "initialized" =>
              \A r \in DOMAIN results :
                  results[r].status = "loading" /\ results[r].products = <<>>

\* C1 witness: a call has returned although every adapter threw or timed out.
C1_Witness ==
    /\ pc = "returned"
    /\ \A i \in Indexes : TimedOut(i) \/ ThrewInTime(i)
    /\ \E i \in Indexes : TimedOut(i)
    /\ \E i \in Indexes : ThrewInTime(i)

\* C2: in the returned results, a retailer whose adapter resolved before its
\* timer fired has status 'success' and exactly the products its adapter
\* resolved with, whenever another retailer's adapter threw or timed out.
C2_FailureIsolation ==
    pc = "returned" =>
        \A i \in Indexes :
            (/\ ReturnedInTime(i)
             /\ \E j \in Indexes \ {i} : TimedOut(j) \/ adapter[retailers[j]].state = "rejected")
            => /\ results[retailers[i]].status = "success"
               /\ results[retailers[i]].products = adapter[retailers[i]].products
               /\ results[retailers[i]].error = Undefined

\* C2 witness: the last retailer succeeded with its batch in a call where the
\* first retailer timed out and the second threw.
C2_Witness ==
    /\ pc = "returned"
    /\ ReturnedInTime(4)
    /\ adapter[retailers[4]].products = getMockProducts(retailers[4], SearchDraws)
    /\ TimedOut(1)
    /\ ThrewInTime(2)

\* C3: when searchAllRetailers has returned, no entry is 'loading'.
C3_NoLoadingAtReturn ==
    pc = "returned" =>
        \A r \in Retailers : results[r].status \in {"success", "error", "not_deliverable"}

\* C3 witness: a call returned with an adapter still pending.
C3_Witness ==
    /\ pc = "returned"
    /\ \E r \in Retailers : adapter[r].state = "pending"
    /\ \E r \in Retailers : adapter[r].state = "fulfilled"

\* C4: a retailer whose adapter had not settled when its timer fired is
\* returned as 'error' with no products and the timeout message, also when
\* the adapter, which is not cancelled, settles afterwards.
C4_TimeoutEntry ==
    pc = "returned" =>
        \A i \in Indexes : TimedOut(i) => results[retailers[i]] = TimeoutEntry

\* C4 witness: an adapter resolved with its batch after its timer had fired,
\* before the call returned.
C4_Witness ==
    /\ pc = "returned"
    /\ \E i \in Indexes :
          /\ adapter[retailers[i]].state = "fulfilled"
          /\ adapter[retailers[i]].afterDeadline
          /\ adapter[retailers[i]].products # <<>>
          /\ results[retailers[i]] = TimeoutEntry

\* C5: a call in which adapters threw still returns, and a retailer whose
\* adapter threw before its timer fired is returned as 'error' with no
\* products; its error is the message of the thrown Error ('Search failed'
\* when the thrown value is not an Error and so carries no message).
C5_ThrowBecomesErrorEntry ==
    pc = "returned" =>
        \A i \in Indexes :
            ThrewInTime(i) =>
                /\ results[retailers[i]].status = "error"
                /\ results[retailers[i]].products = <<>>
                /\ adapter[retailers[i]].thrown.isError =>
                      results[retailers[i]].error = adapter[retailers[i]].thrown.message
                /\ ~adapter[retailers[i]].thrown.isError =>
                      results[retailers[i]].error = "Search failed"

\* C5 witness: a call returned after one adapter threw an Error and another
\* threw a value that is not an Error.
C5_Witness ==
    /\ pc = "returned"
    /\ \E i \in Indexes : ThrewInTime(i) /\ adapter[retailers[i]].thrown.isError
    /\ \E i \in Indexes : ThrewInTime(i) /\ ~adapter[retailers[i]].thrown.isError

\* C6: a call whose searches are launched eventually returns, whether or not
\* any adapter ever settles; and once every retailer's adapter has settled or
\* its own timer has fired, nothing else is waited for: every race is settled.
C6_CallReturns ==
    /\ (pc = "awaiting") ~> (pc = "returned")
    /\ []((/\ pc = "awaiting"
           /\ \A i \in Indexes :
                 \/ timer[i] = "fired"
                 \/ adapter[retailers[i]].state \in {"fulfilled", "rejected"})
          => \A i \in Indexes : race[i].status # "pending")

\* C6 witness: a call returned while no adapter had settled.
C6_Witness ==
    /\ pc = "returned"
    /\ \A r \in Retailers : adapter[r].state = "pending"

\* C7: a retailer the delivery gate reports as not delivering to the query's
\* pincode is returned as 'not_deliverable' with no products, and its adapter
\* is not invoked.
C7_NotDeliverableBypassesSearch ==
    pc = "returned" =>
        \A r \in Retailers :
            ~delivery[r] =>
                /\ results[r].status = "not_deliverable"
                /\ results[r].products = <<>>
                /\ adapter[r].state = "notInvoked"

\* The four retailers in any order.
Scenarios ==
    {sc \in [1..4 -> Indexes] : \A x, y \in 1..4 : x # y => sc[x] # sc[y]}

\* C8: when one retailer resolves with three products in time, a second
\* throws, a third times out and the fourth resolves with no product, the
\* returned results hold success with the three products, error, error with
\* the timeout message, and success with no product.
C8_EndToEndScenario ==
    pc = "returned" =>
        \A sc \in Scenarios :
            (/\ ReturnedInTime(sc[1])
             /\ Len(adapter[retailers[sc[1]]].products) = 3
             /\ ThrewInTime(sc[2])
             /\ TimedOut(sc[3])
             /\ ReturnedInTime(sc[4])
             /\ Len(adapter[retailers[sc[4]]].products) = 0)
            => /\ results[retailers[sc[1]]].status = "success"
               /\ results[retailers[sc[1]]].products = getMockProducts(retailers[sc[1]], SearchDraws)
               /\ results[retailers[sc[2]]].status = "error"
               /\ results[retailers[sc[2]]].products = <<>>
               /\ results[retailers[sc[3]]] = TimeoutEntry
               /\ results[retailers[sc[4]]].status = "success"
               /\ results[retailers[sc[4]]].products = <<>>

\* C8 witness: the scenario with the retailers in configuration order.
C8_Witness ==
    /\ pc = "returned"
    /\ ReturnedInTime(1)
    /\ Len(adapter[retailers[1]].products) = 3
    /\ ThrewInTime(2)
    /\ TimedOut(3)
    /\ ReturnedInTime(4)
    /\ Len(adapter[retailers[4]].products) = 0

(***************************************************************************)
(* Properties of FeedbackService                                           *)
(***************************************************************************)
\* A request body the contract rejects: an id that is missing or no string,
\* a type other than the two verdicts, or a negative timestamp.
MustReject(feedback) ==
    \/ feedback.productId.t # "string"
    \/ feedback.queryId.t # "string"
    \/ ~(feedback.type.t = "string" /\ feedback.type.s \in {"relevant", "not_relevant"})
    \/ (feedback.timestamp.t = "number" /\ feedback.timestamp.n < 0)

\* No entry of a list of feedback entries is one the contract rejects.
OnlyAcceptable(events) == \A i \in DOMAIN events : ~MustReject(events[i])

\* What the last reader returned shows accepted entries only.
ReplyShowsAcceptedOnly ==
    /\ OnlyAcceptable(reply.events)
    /\ reply.op = "getFeedbackAnalytics" =>
          /\ reply.analytics.summary.totalFeedback = Len(feedbackStore)
          /\ \A i \in DOMAIN reply.analytics.byProduct :
                reply.analytics.byProduct[i].key.t = "string"
          /\ \A i \in DOMAIN reply.analytics.byQuery :
                reply.analytics.byQuery[i].key.t = "string"

\* C9: every step that answers a submitFeedback call for a feedback whose
\* productId or queryId is missing or not a string, whose type is not
\* 'relevant' or 'not_relevant', or whose timestamp is negative, answers with
\* the thrown error and leaves feedbackStore as it was;
\* the store and the results of getFeedbackAnalytics, getProductFeedback and
\* getQueryFeedback never hold such a feedback.
C9_RejectedSubmitLeavesStore ==
    [][/\ \/ reply'.op # "submitFeedback"
          \/ reply'.error # Undefined /\ feedbackStore' = feedbackStore
          \/ \A feedback \in FeedbackInputs :
                MustReject(feedback) => ~SubmitFeedback(feedback)
       /\ OnlyAcceptable(feedbackStore')
       /\ ReplyShowsAcceptedOnly']_vars

\* C9 witness: a feedback with a negative timestamp was rejected while the
\* store held accepted entries.
C9_Witness ==
    /\ reply.op = "submitFeedback"
    /\ reply.error = "Timestamp must be a positive number"
    /\ Len(feedbackStore) > 0

\* C10: every step keeps the entries of feedbackStore, fields and positions
\* unchanged; an accepted submitFeedback adds exactly one entry, at the end,
\* carrying the submitted ids and type; getFeedbackAnalytics,
\* getProductFeedback and getQueryFeedback leave the store as it was.
C10_StoreIsAppendOnly ==
    [][/\ Len(feedbackStore') >= Len(feedbackStore)
       /\ SubSeq(feedbackStore', 1, Len(feedbackStore)) = feedbackStore
       /\ \/ reply'.op # "submitFeedback"
          \/ reply'.error # Undefined
          \/ \A feedback \in FeedbackInputs :
                SubmitFeedback(feedback) =>
                  /\ Len(feedbackStore') = Len(feedbackStore) + 1
                  /\ feedbackStore'[Len(feedbackStore')].productId = feedback.productId
                  /\ feedbackStore'[Len(feedbackStore')].queryId = feedback.queryId
                  /\ feedbackStore'[Len(feedbackStore')].type = feedback.type
       /\ \/ feedbackStore' = feedbackStore
          \/ ~(\/ GetFeedbackAnalytics
               \/ \E productId \in ProductIds : GetProductFeedback(productId)
               \/ \E queryId \in QueryIds : GetQueryFeedback(queryId))]_vars

\* C10 witness: getProductFeedback ran on a store of two different entries.
C10_Witness ==
    /\ reply.op = "getProductFeedback"
    /\ Len(feedbackStore) = 2
    /\ feedbackStore[1] # feedbackStore[2]
    /\ reply.events # <<>>

(***************************************************************************)
(* Properties of getFeedbackAnalytics                                      *)
(***************************************************************************)
\* The positions of the stored events that are marked relevant.
RelevantPositions(positions) ==
    {i \in positions : feedbackStore[i].type = JsStr("relevant")}

\* C11: the summary of an analytics reply carries the relevance rate of the
\* whole store, relevant / total * 100 rounded to two decimals (here the
\* nearest integer number of hundredths of a percent, halves up); for an
\* empty store the rate is 0 and the call does not fail.
C11_SummaryRelevanceRate ==
    reply.op = "getFeedbackAnalytics" =>
        LET total == Len(feedbackStore)
            relevant == Cardinality(RelevantPositions(DOMAIN feedbackStore))
            rate == reply.analytics.summary.relevanceRate
        IN /\ reply.error = Undefined
           /\ total = 0 => rate = 0
           /\ total > 0 =>
                /\ 2 * (rate * total - 10000 * relevant) <= total
                /\ 2 * (10000 * relevant - rate * total) < total

\* Analytics of a store of three events of which two are relevant: 66.67 %.
C11_Witness ==
    /\ reply.op = "getFeedbackAnalytics"
    /\ Len(feedbackStore) = 3
    /\ Cardinality(RelevantPositions(DOMAIN feedbackStore)) = 2
    /\ reply.analytics.summary.relevanceRate = 6667

\* The stored events of this week and of last week at the time of a call.
ThisWeekPositions ==
    {i \in DOMAIN feedbackStore :
        Len(ThisWeek(<<feedbackStore[i]>>, now)) = 1}

LastWeekPositions ==
    {i \in DOMAIN feedbackStore :
        Len(LastWeek(<<feedbackStore[i]>>, now)) = 1}

\* The sign of (rate of this week) - (rate of last week), a window without
\* events having rate 0: the rates relevant / count are compared by cross
\* multiplication.
RateOrder ==
    LET thisCount == Cardinality(ThisWeekPositions)
        lastCount == Cardinality(LastWeekPositions)
        thisRelevant == Cardinality(RelevantPositions(ThisWeekPositions))
        lastRelevant == Cardinality(RelevantPositions(LastWeekPositions))
        left == thisRelevant * (IF lastCount = 0 THEN 1 ELSE lastCount)
        right == lastRelevant * (IF thisCount = 0 THEN 1 ELSE thisCount)
    IN IF left > right THEN 1 ELSE IF left < right THEN -1 ELSE 0

\* C12: an analytics call reports the trend direction improving when the rate
\* of this week exceeds the rate of last week, declining when it is lower and
\* stable when they are equal, also when a window has no events (rate 0); the
\* call does not fail.
C12_TrendDirection ==
    [][GetFeedbackAnalytics =>
         /\ reply'.error = Undefined
         /\ reply'.analytics.trends.trend.direction =
               (CASE RateOrder = 1 -> "improving"
                  [] RateOrder = -1 -> "declining"
                  [] OTHER -> "stable")
         /\ ThisWeekPositions = {} =>
               reply'.analytics.trends.thisWeek.relevanceRate = 0
         /\ LastWeekPositions = {} =>
               reply'.analytics.trends.lastWeek.relevanceRate = 0]_vars

\* Analytics of a store whose events all lie outside both windows: stable.
C12_Witness ==
    /\ reply.op = "getFeedbackAnalytics"
    /\ Len(feedbackStore) = 2
    /\ reply.analytics.trends.thisWeek.count = 0
    /\ reply.analytics.trends.lastWeek.count = 0
    /\ reply.analytics.trends.trend.direction = "stable"

\* C13: at an analytics call this week counts exactly the events of the last
\* seven days, last week exactly those between seven and fourteen days ago,
\* and events older than fourteen days or dated after the time of the call
\* are counted in neither window. (The edges are read as the code reads them:
\* seven days ago sharp belongs to last week, fourteen days ago sharp to
\* neither.)
C13_WindowsPartitionByAge ==
    [][GetFeedbackAnalytics =>
         LET age(i) == now - feedbackStore[i].timestamp.n
             lastSevenDays ==
                 {i \in DOMAIN feedbackStore : age(i) >= 0 /\ age(i) < 7 * DayMs}
             weekBefore ==
                 {i \in DOMAIN feedbackStore :
                     age(i) >= 7 * DayMs /\ age(i) < 14 * DayMs}
         IN /\ reply'.analytics.trends.thisWeek.count = Cardinality(lastSevenDays)
            /\ reply'.analytics.trends.lastWeek.count = Cardinality(weekBefore)]_vars

(***************************************************************************)
(* Properties of getProductFeedback and getQueryFeedback                   *)
(***************************************************************************)
\* events lists, in the order of the store, exactly the stored events at the
\* given positions.
ListsPositions(events, positions) ==
    /\ Len(events) = Cardinality(positions)
    /\ \E place \in [DOMAIN events -> positions] :
          /\ \A i \in DOMAIN events : events[i] = feedbackStore[place[i]]
          /\ \A i, j \in DOMAIN events : i < j => place[i] < place[j]

\* C14: getProductFeedback(productId) returns exactly the stored events of
\* that product and getQueryFeedback(queryId) exactly those of that query,
\* each in the order of submission, nothing omitted and nothing added.
C14_HistoriesByIdInOrder ==
    [][/\ \A productId \in ProductIds :
            GetProductFeedback(productId) =>
                ListsPositions(reply'.events,
                    {i \in DOMAIN feedbackStore :
                        feedbackStore[i].productId = productId})
       /\ \A queryId \in QueryIds :
            GetQueryFeedback(queryId) =>
                ListsPositions(reply'.events,
                    {i \in DOMAIN feedbackStore :
                        feedbackStore[i].queryId = queryId})]_vars

\* A history of two events out of a store of three whose first and last
\* event differ and belong to the product asked for, the middle one not.
C14_Witness ==
    /\ reply.op = "getProductFeedback"
    /\ Len(feedbackStore) = 3
    /\ Len(reply.events) = 2
    /\ reply.events[1] = feedbackStore[1]
    /\ reply.events[2] = feedbackStore[3]
    /\ feedbackStore[1] # feedbackStore[3]
    /\ feedbackStore[2].queryId = feedbackStore[1].queryId

(***************************************************************************)
(* Properties of submitFeedback                                            *)
(***************************************************************************)
\* C15: an accepted event is stored with the timestamp the caller supplied
\* whenever one is supplied (any number >= 0, 0 included), with the time of
\* the submit only when none is supplied, and never with a negative one.
C15_SuppliedTimestampKept ==
    [][\/ reply'.op # "submitFeedback"
       \/ reply'.error # Undefined
       \/ \A feedback \in AcceptableInputs :
             SubmitFeedback(feedback) =>
                LET stored == feedbackStore'[Len(feedbackStore')]
                IN /\ stored.timestamp.t = "number"
                   /\ stored.timestamp.n >= 0
                   /\ feedback.timestamp.t = "number" =>
                         stored.timestamp = feedback.timestamp
                   /\ feedback.timestamp = JsUndefined =>
                         stored.timestamp = JsNum(now)]_vars

(***************************************************************************)
(* Properties of PincodeService                                            *)
(***************************************************************************)
\* The pincodes that are exactly six ASCII digits.
SixAsciiDigits == [1..6 -> AsciiDigits]

\* C16: a pincode that is not exactly six ASCII digits is rejected without
\* an external lookup, whatever the cache holds: validatePincode returns
\* valid = false, getDeliveryInfo throws the invalid-pincode error, and no
\* request for such a pincode is ever in flight.
C16_MalformedPincodeRejected ==
    /\ \A c \in CallIds :
          calls[c].state = "waiting" => calls[c].pincode \in SixAsciiDigits
    /\ (answer.op # "none" /\ answer.pincode \notin SixAsciiDigits) =>
          /\ ~answer.lookedUp
          /\ ~answer.validation.valid
          /\ answer.validation.error = "Pincode must be a 6-digit number"
          /\ answer.op = "validatePincode" => answer.thrown = Undefined
          /\ answer.op = "getDeliveryInfo" =>
                /\ answer.thrown = "Pincode must be a 6-digit number"
                /\ ~answer.available

\* getDeliveryInfo of a pincode of seven digits threw while the cache held
\* an entry.
C16_Witness ==
    /\ answer.op = "getDeliveryInfo"
    /\ Len(answer.pincode) = 7
    /\ answer.thrown = "Pincode must be a 6-digit number"
    /\ DOMAIN cache # {}

\* C17: when the external lookup of a six-digit pincode fails, validatePincode
\* returns valid = true with city and state 'Unknown', and getDeliveryInfo
\* returns delivery details with available = true instead of throwing.
C17_LookupFailureFallsBack ==
    [][\A c \in CallIds :
          Responds(c, "failure") =>
             /\ answer'.lookedUp
             /\ answer'.validation.valid
             /\ answer'.validation.city = "Unknown"
             /\ answer'.validation.state = "Unknown"
             /\ answer'.thrown = Undefined
             /\ calls[c].op = "getDeliveryInfo" =>
                   /\ answer'.op = "getDeliveryInfo"
                   /\ answer'.available
                   /\ answer'.city = "Unknown"
                   /\ answer'.state = "Unknown"]_vars

\* getDeliveryInfo returned the fallback details after a lookup.
C17_Witness ==
    /\ answer.op = "getDeliveryInfo"
    /\ answer.lookedUp
    /\ answer.available
    /\ answer.city = "Unknown"

\* C18: once a lookup of a six-digit pincode has completed, every later
\* lookup of the same pincode within 24 hours returns the cached result
\* without a new external lookup; a lookup later than 24 hours after the
\* entry was written performs an external lookup again. (The completed
\* lookup is the last call that returned, when it went to the external API.)
C18_LookupsCachedForADay ==
    [][\A c \in CallIds, pincode \in WellFormedPincodes :
          ValidatePincode(c, pincode) =>
             /\ (/\ answer.op # "none"
                 /\ answer.lookedUp
                 /\ answer.pincode = pincode
                 /\ elapsed - answer.at < cacheTimeout)
                 => /\ calls' = calls
                    /\ answer'.validation = answer.validation
                    /\ ~answer'.lookedUp
             /\ (/\ CacheKey(pincode) \in DOMAIN cache
                 /\ elapsed - cache[CacheKey(pincode)].writtenAt > cacheTimeout)
                 => calls'[c].state = "waiting"]_vars

\* C19: a timer never deletes an entry earlier than 24 hours after the last
\* write of its key.
C19_EvictionAfterFullDay ==
    [][\A eviction \in evictions :
          (EvictionFires(eviction) /\ eviction.key \in DOMAIN cache) =>
             elapsed - cache[eviction.key].writtenAt >= cacheTimeout]_vars

(***************************************************************************)
(* Properties of CrossRetailerEngine.validateDelivery                      *)
(***************************************************************************)
\* C20: validateDelivery is a pure predicate: asked again for the same
\* pincode, it returns for every retailer the boolean it returned before.
C20_ValidateDeliveryIsPure ==
    [][\A pincode \in Pincodes :
          (/\ pc = "validated"
           /\ query.pincode = pincode
           /\ ValidateDelivery(pincode))
          => delivery' = delivery]_vars

(***************************************************************************)
(* Properties of the products returned                                     *)
(***************************************************************************)
\* The batches a caller holds: the products of the searchRetailer route and
\* the products of every entry of the results object.
ReturnedBatches ==
    {found.products} \cup {results[r].products : r \in DOMAIN results}

\* C21: every product of every batch returned by searchRetailer or held by an
\* entry of the results of searchAllRetailers has a matchScore within 0..100.
C21_MatchScoreInRange ==
    \A batch \in ReturnedBatches :
        \A n \in DOMAIN batch :
            batch[n].matchScore >= 0 /\ batch[n].matchScore <= 100

\* searchRetailer returned a product with the highest score it can draw and
\* one with the lowest.
C21_Witness ==
    /\ found # NotSearched
    /\ found.products[1].matchScore = 70
    /\ found.products[3].matchScore = 99

\* The types of the highlights of a product include top_pick.
IsTopPick(product) ==
    \E h \in DOMAIN product.highlights : product.highlights[h] = "top_pick"

\* C22: in every non-empty batch returned, a product carrying top_pick has
\* the maximum matchScore of the batch and some product carries top_pick;
\* an empty batch carries no highlights.
C22_TopPickHasMaximumScore ==
    \A batch \in ReturnedBatches :
        batch # <<>> =>
            /\ \E n \in DOMAIN batch : IsTopPick(batch[n])
            /\ \A n \in DOMAIN batch :
                  IsTopPick(batch[n]) =>
                     \A k \in DOMAIN batch :
                        batch[k].matchScore <= batch[n].matchScore

(***************************************************************************)
(* Properties of IntentParserService                                       *)
(***************************************************************************)
\* A document that validateParsedIntent refuses: null, a productType that is
\* missing, empty or no string, a budget object whose min or max is no
\* number, or features that are no array.
FailsValidation(document) ==
    \/ document.isNull
    \/ document.productType.t # "string"
    \/ document.productType.s = ""
    \/ ~document.budget.isNull /\ document.budget.min.t # "number"
    \/ ~document.budget.isNull /\ document.budget.max.t # "number"
    \/ ~document.features.isArray

\* The completion call rejected, returned no content or returned text that
\* is not JSON.
NoDocumentAnswered(completion) ==
    \/ completion.rejected
    \/ completion.content \in {"undefined", "null", "empty", "text"}

\* The failures of the service call: no document, or one that fails validation.
ServiceFailed(completion) ==
    NoDocumentAnswered(completion) \/ FailsValidation(completion.document)

\* parseQuery resolved with the result of the fallback parser for its query.
ResolvedWithFallback ==
    /\ parsed.settled = "resolved"
    /\ parsed.fallback
    /\ parsed.intent = fallbackParsing(parsed.text)

RejectedWithExtractMessage ==
    /\ parsed.settled = "rejected"
    /\ parsed.error = "Failed to extract entities from query"

\* C23 as stated: on every failure of the service call (rejection, no
\* content, text that is no JSON, an intent that fails validation) parseQuery
\* resolves with the fallback result for the same query, and extractEntities
\* rejects with 'Failed to extract entities from query'.
C23_Original ==
    /\ parsed.op = "parseQuery" =>
          /\ parsed.settled = "resolved"
          /\ ServiceFailed(parsed.completion) => ResolvedWithFallback
    /\ (parsed.op = "extractEntities" /\ ServiceFailed(parsed.completion))
          => RejectedWithExtractMessage

\* C23, amended: parseQuery always resolves, with the fallback result for the
\* same query on every failure of the service call; extractEntities rejects
\* with 'Failed to extract entities from query' when the call rejects, returns
\* no content or returns text that is no JSON, and resolves with the document
\* answered otherwise, also when that document would fail validation.
C23_FallbackOnFailure ==
    /\ parsed.op = "parseQuery" =>
          /\ parsed.settled = "resolved"
          /\ ServiceFailed(parsed.completion) => ResolvedWithFallback
    /\ (parsed.op = "extractEntities" /\ NoDocumentAnswered(parsed.completion))
          => RejectedWithExtractMessage
    /\ (parsed.op = "extractEntities" /\ ~NoDocumentAnswered(parsed.completion))
          => /\ parsed.settled = "resolved"
             /\ parsed.document = parsed.completion.document

\* parseQuery answered the fallback result for a document without features.
C23_Witness ==
    /\ parsed.op = "parseQuery"
    /\ parsed.completion.content = "json"
    /\ ~parsed.completion.document.isNull
    /\ ~parsed.completion.document.features.isArray
    /\ ResolvedWithFallback
    /\ parsed.intent.productType = <<"l", "a", "p", "t", "o", "p">>

(***************************************************************************)
(* Properties of the fallback parser                                       *)
(***************************************************************************)
\* The budget phrases, compared without regard to case.
BudgetPhrases ==
    {<<"u", "n", "d", "e", "r">>,
     <<"b", "e", "l", "o", "w">>,
     <<"l", "e", "s", "s", " ", "t", "h", "a", "n">>,
     <<RupeeSign>>,
     <<"r", "s">>,
     <<"r", "s", ".">>,
     <<"r", "u", "p", "e", "e">>,
     <<"r", "u", "p", "e", "e", "s">>}

DecimalDigits == <<"0", "1", "2", "3", "4", "5", "6", "7", "8", "9">>

\* The positions s..e of str hold an amount: groups of digits separated by
\* single commas, not continued at position e + 1.
AmountAt(str, s, e) ==
    /\ 1 <= s /\ s <= e /\ e <= Len(str)
    /\ \A k \in s..e :
          \/ str[k] \in AsciiDigits
          \/ str[k] = "," /\ s < k /\ k < e /\ str[k - 1] # "," /\ str[k + 1] # ","
    /\ ~(e + 1 <= Len(str) /\ str[e + 1] \in AsciiDigits)
    /\ ~(/\ e + 2 <= Len(str)
         /\ str[e + 1] = ","
         /\ str[e + 2] \in AsciiDigits)

\* The number an amount stands for once its separators are removed.
RECURSIVE AmountOf(_)
AmountOf(amount) ==
    IF amount = <<>> THEN 0
    ELSE LET front == SubSeq(amount, 1, Len(amount) - 1)
             last == amount[Len(amount)]
         IN  IF last = "," THEN AmountOf(front)
             ELSE 10 * AmountOf(front)
                     + (CHOOSE d \in 0..9 : DecimalDigits[d + 1] = last)

\* The places <<i, s, e>> where str has a budget phrase at position i that is
\* followed, after optional whitespace, by the amount at positions s..e.
BudgetMentions(str) ==
    LET lower == toLowerCase(str)
        phrasesAt == {<<i, phrase>> \in (1..Len(str)) \X BudgetPhrases :
                         StartsAt(lower, i, phrase)}
        amountsAt == {<<at, s>> \in phrasesAt \X (1..Len(str)) :
                         /\ s >= at[1] + Len(at[2])
                         /\ str[s] \in AsciiDigits
                         /\ \A k \in (at[1] + Len(at[2]))..(s - 1) :
                               str[k] \in Whitespace}
    IN  {<<ends[1][1][1], ends[1][2], ends[2]>> : ends \in
            {<<at, e>> \in amountsAt \X (1..Len(str)) : AmountAt(str, at[2], e)}}

\* C24: the fallback parser returns budget {min: 0, max: N} when the query
\* has a budget phrase followed by the amount N (the first such place when
\* there are several), N being the amount with its thousands separators
\* removed, and budget null when the query has no such place.
C24_FallbackBudget ==
    (parsed.op = "parseQuery" /\ parsed.fallback) =>
        LET mentions == BudgetMentions(parsed.text)
        IN  IF mentions = {}
            THEN parsed.intent.budget.isNull
            ELSE \A place \in mentions :
                    (\A other \in mentions : place[1] <= other[1]) =>
                       /\ ~parsed.intent.budget.isNull
                       /\ parsed.intent.budget.min = 0
                       /\ parsed.intent.budget.max =
                             AmountOf(SubSeq(parsed.text, place[2], place[3]))

\* The fallback parser read an amount written with a separator as 3050.
C24_Witness ==
    /\ parsed.op = "parseQuery"
    /\ parsed.fallback
    /\ includes(parsed.text, <<"3", ",", "0", "5", "0">>)
    /\ parsed.intent.budget = [isNull |-> FALSE, min |-> 0, max |-> 3050]

\* The keywords of productKeywords that the query mentions, whatever its case.
MentionedKeywords(str) ==
    {productKeywords[k] : k \in
        {k \in DOMAIN productKeywords :
            includes(toLowerCase(str), productKeywords[k])}}

\* C29: the productType of the fallback parser is a known keyword that the
\* query mentions, 'smartphone' for a query that mentions 'smartphone', and
\* 'product' for a query that mentions no known keyword.
C29_ProductTypeIsKeywordMentioned ==
    (parsed.op = "parseQuery" /\ parsed.fallback) =>
        LET mentioned == MentionedKeywords(parsed.text)
            smartphone == <<"s", "m", "a", "r", "t", "p", "h", "o", "n", "e">>
        IN  /\ mentioned = {} =>
                  parsed.intent.productType = <<"p", "r", "o", "d", "u", "c", "t">>
            /\ mentioned # {} => parsed.intent.productType \in mentioned
            /\ smartphone \in mentioned =>
                  parsed.intent.productType = smartphone

(***************************************************************************)
(* Properties of the writes and the launches of searchAllRetailers         *)
(***************************************************************************)
\* C25: within one call the entry of a retailer is written to its final
\* value once: it changes only from 'loading' to success, error or
\* not_deliverable, it then holds only products of its own retailer, and it
\* never changes again; an adapter that settles after the call has returned
\* with the timeout error leaves that entry alone.
C25_EntryWrittenOnce ==
    [][(InCall /\ InCall') =>
          \A i \in Indexes :
             /\ results'[retailers[i]] # results[retailers[i]] =>
                   /\ results[retailers[i]].status = "loading"
                   /\ results'[retailers[i]].status
                         \in {"success", "error", "not_deliverable"}
                   /\ \A n \in DOMAIN results'[retailers[i]].products :
                         results'[retailers[i]].products[n].retailer = retailers[i]
             /\ (/\ pc = "returned"
                 /\ adapter'[retailers[i]] # adapter[retailers[i]]) =>
                   /\ results[retailers[i]] = TimeoutEntry
                   /\ results'[retailers[i]] = TimeoutEntry]_vars

\* An adapter resolved with its products after the call had returned the
\* timeout error for its retailer.
C25_Witness ==
    /\ pc = "returned"
    /\ \E i \in Indexes :
          /\ race[i].status = "rejected"
          /\ adapter[retailers[i]].state = "fulfilled"
          /\ adapter[retailers[i]].products # <<>>
          /\ results[retailers[i]] = TimeoutEntry
    /\ \E i \in Indexes : results[retailers[i]].status = "success"

\* C26: nothing is retried and the adapters are launched together: an adapter
\* is invoked only when it has not been invoked in the call, every adapter is
\* invoked in the same step, and while the call awaits or has returned no
\* adapter is left uninvoked.
C26_EachAdapterInvokedOnce ==
    [][/\ \A r \in Retailers :
             (adapter'[r].state = "pending" /\ adapter[r] # adapter'[r]) =>
                /\ adapter[r].state = "notInvoked"
                /\ \A other \in Retailers :
                      /\ adapter[other].state = "notInvoked"
                      /\ adapter'[other].state = "pending"
                /\ \A i \in Indexes : race'[i].status = "pending"
       /\ pc' \in {"awaiting", "returned"} =>
             \A r \in Retailers : adapter'[r].state # "notInvoked"]_vars

\* The call returned although one adapter threw and another had not settled
\* when its timer fired.
C26_Witness ==
    /\ pc = "returned"
    /\ \E r \in Retailers : adapter[r].state = "rejected"
    /\ \E i \in Indexes :
          /\ adapter[retailers[i]].state = "pending"
          /\ timer[i] = "fired"

(***************************************************************************)
(* Properties of searchSlice                                               *)
(***************************************************************************)
\* C28: results always holds exactly the four retailer entries;
\* setRetailerResult replaces the entry of the named retailer and leaves the
\* other entries, isSearching and error unchanged; startSearch resets every
\* entry to 'loading' with no products.
C28_StoreKeepsFourEntries ==
    [][/\ DOMAIN slice.results = {"amazon", "flipkart", "myntra", "meesho"}
       /\ DOMAIN slice'.results = {"amazon", "flipkart", "myntra", "meesho"}
       /\ \A retailer \in Retailers, result \in StoreResults :
             setRetailerResult(retailer, result) =>
                /\ slice'.results[retailer] = result
                /\ \A other \in Retailers \ {retailer} :
                      slice'.results[other] = slice.results[other]
                /\ slice'.isSearching = slice.isSearching
                /\ slice'.error = slice.error
       /\ startSearch =>
             \A r \in Retailers :
                /\ slice'.results[r].status = "loading"
                /\ slice'.results[r].products = <<>>]_vars

\* A search that is running holds a result for one retailer, an error for
\* another, and the others are loading.
C28_Witness ==
    /\ slice.isSearching
    /\ slice.results["amazon"].status = "success"
    /\ slice.results["myntra"].status = "error"
    /\ slice.results["flipkart"].status = "loading"
    /\ slice.error = "<null>"

\* The delivery cost the specification tabulates for a retailer and a
\* pincode: for the major-city codes and for the other codes, amazon 0 and
\* 0, flipkart 0 and 40, myntra 0 and 50, meesho 30 and 60.
TabulatedCost(retailer, pincode) ==
    LET major == pincode \in majorCityPincodes
    IN  CASE retailer = "amazon" -> 0
          [] retailer = "flipkart" -> (IF major THEN 0 ELSE 40)
          [] retailer = "myntra" -> (IF major THEN 0 ELSE 50)
          [] retailer = "meesho" -> (IF major THEN 30 ELSE 60)

\* C27: the delivery information getDeliveryInfo returns for a retailer and
\* a pincode carries the tabulated cost of that retailer for the pincode's
\* class (major city or not), whatever the lookup of the pincode found.
C27_DeliveryCostFollowsTable ==
    (answer.op = "getDeliveryInfo" /\ answer.available)
        => answer.cost = TabulatedCost(answer.retailer, answer.pincode)

\* The part of C27 the code keeps: the cost is the same for every outcome of
\* the lookup, and is the tabulated one wherever that is not 0.
C27_CostWhereTableIsNotZero ==
    (/\ answer.op = "getDeliveryInfo"
     /\ answer.available
     /\ TabulatedCost(answer.retailer, answer.pincode) # 0)
        => answer.cost = TabulatedCost(answer.retailer, answer.pincode)

\* The sum of the relevant and not_relevant counters of the rows of byProduct
\* or byQuery.
RECURSIVE CountedIn(_)
CountedIn(rows) ==
    IF rows = <<>> THEN 0
    ELSE rows[1].relevant + rows[1].not_relevant + CountedIn(Tail(rows))

\* rows has exactly one row for each id of ids, and its counters sum to total.
GroupsConsistent(rows, ids, total) ==
    /\ \A i \in DOMAIN ids :
          Cardinality({j \in DOMAIN rows : rows[j].key = ids[i]}) = 1
    /\ CountedIn(rows) = total

\* C30: what getFeedbackAnalytics returns agrees with the log: totalFeedback
\* is the number of accepted events and is relevantCount + notRelevantCount;
\* every product id and every query id of an accepted event has exactly one
\* row in byProduct and byQuery; and the counters of the rows of byProduct,
\* and of byQuery, sum to totalFeedback.
C30_AnalyticsConsistentWithLog ==
    reply.op = "getFeedbackAnalytics" =>
        LET analytics == reply.analytics
            total == analytics.summary.totalFeedback
        IN  /\ total = Len(feedbackStore)
            /\ total = analytics.summary.relevantCount
                           + analytics.summary.notRelevantCount
            /\ GroupsConsistent(analytics.byProduct,
                    [i \in DOMAIN feedbackStore |-> feedbackStore[i].productId],
                    total)
            /\ GroupsConsistent(analytics.byQuery,
                    [i \in DOMAIN feedbackStore |-> feedbackStore[i].queryId],
                    total)

\* The part of C30 the code keeps: the summary agrees with the log always,
\* and the rows do when no accepted id is a name every object has.
C30_ConsistentForOrdinaryIds ==
    reply.op = "getFeedbackAnalytics" =>
        LET analytics == reply.analytics
            total == analytics.summary.totalFeedback
            productIds == [i \in DOMAIN feedbackStore |-> feedbackStore[i].productId]
            queryIds == [i \in DOMAIN feedbackStore |-> feedbackStore[i].queryId]
        IN  /\ total = Len(feedbackStore)
            /\ total = analytics.summary.relevantCount
                           + analytics.summary.notRelevantCount
            /\ OwnKeys(productIds) = productIds
                  => GroupsConsistent(analytics.byProduct, productIds, total)
            /\ OwnKeys(queryIds) = queryIds
                  => GroupsConsistent(analytics.byQuery, queryIds, total)

====
